---- MODULE Spec2Model ----
(***************************************************************************)
(* Request-orchestration pipeline of the agent starter kit: the            *)
(* confirmation stores (MySQL and in-memory), the dedupe stores (MySQL and *)
(* in-memory), the session rate limiter and the orchestrator's             *)
(* handle_message state machine.                                           *)
(*                                                                         *)
(* Time is a global integer clock `now` (the stores read time.time() /     *)
(* UTC_TIMESTAMP()); TTLs are scaled down to a few ticks.  Tokens made by  *)
(* secrets.token_urlsafe are modelled as fresh integers, short codes as    *)
(* integers of a disjoint range (a 6-digit code never equals a 22-char     *)
(* token).                                                                 *)
(***************************************************************************)
EXTENDS Integers, Sequences, FiniteSets, TLC

VARIABLES
  now,      \* the wall clock read by every store
  rows,     \* table pending_confirmations: a set of row records
  locked,   \* tokens of the rows X-locked by an open SELECT ... FOR UPDATE
  pending,  \* ConfirmationManager._pending: a set of items, one per token
  crt,      \* the create calls (one per token), with what each captured
  cons,     \* the consume calls in flight or finished
  drows,    \* table dedupe_messages: a set of row records
  dmem,     \* MemoryDedupeStore._store: a set of [key, ts]
  mk,       \* the mark calls in flight or finished
  marks,    \* history of finished mark calls, in the order they took effect
  clock,    \* logical event counter ordering the begin/end of mark calls
  variant,  \* which confirmation store the deployment wires in: "db" or "mem"
  turns,    \* the handle_message calls: position, message, what each did
  buckets,  \* MemoryFixedWindowLimiter._buckets of each channel's orchestrator
  events,   \* EventBus._events of each channel: its audit events in append order
  sess,     \* table sessions
  execs,    \* the tool.run invocations made so far
  audit,    \* table audit_events: the rows MySQLAuditWriter inserted, by channel
  env,      \* settings.ENV
  expose_debug, \* settings.EXPOSE_DEBUG
  down,     \* the stores whose calls raise at the moment (database unreachable)
  lnow,     \* time.time() as the limiter under test reads it, in clock ticks
  lbuckets, \* MemoryFixedWindowLimiter._buckets of the limiter under test
  lcalls,   \* the check calls made on it so far, in order, with their results
  pstep,    \* LLMPlanner.plan: where the call stands
  pcalls,   \* client.chat_json invocations made by the plan call
  pposts,   \* HTTP POSTs sent to the planning service by the plan call
  pattempt, \* OllamaCloudClient._chat: the attempt counter of its retry loop
  ptext,    \* the text the last chat_json returned
  pobj,     \* the object parse_json_strict produced last
  pret,     \* what plan returned or raised
  pfails,   \* how many parses and how many validations failed in the plan call
  rtools,   \* ToolRegistry._tools: the dict from name to tool
  rlog,     \* the (name, tool) pairs registered so far, in order
  rgets     \* the get calls made so far, with what each returned

confVars == <<rows, locked, pending, crt, cons>>
dedupeVars == <<drows, dmem, mk, marks, clock>>
orchVars == <<turns, buckets, events, sess, execs, audit>>
cfgVars == <<env, expose_debug, down>>
limVars == <<lnow, lbuckets, lcalls>>
planVars == <<pstep, pcalls, pposts, pattempt, ptext, pobj, pret, pfails>>
regVars == <<rtools, rlog, rgets>>
vars == <<now, rows, locked, pending, crt, cons, drows, dmem, mk, marks, clock,
          variant, turns, buckets, events, sess, execs, audit, env, expose_debug, down,
          lnow, lbuckets, lcalls, pstep, pcalls, pposts, pattempt, ptext, pobj, pret,
          pfails, rtools, rlog, rgets>>

----------------------------------------------------------------------------
(* Bounds of the model *)

MaxTime == 2          \* the clock runs 0..MaxTime
MaxConf == 2          \* create calls (tokens)
MaxConsumers == 2     \* consume calls
MaxCodes == 1         \* distinct short codes the generator can draw
MaxMarkers == 3       \* mark calls
DbConfDefaultTtl == 2 \* MySQLConfirmationStore(ttl_sec=600), scaled
MemConfDefaultTtl == 2 \* ConfirmationManager(ttl_sec=1800), scaled
DedupeTtl == 1        \* settings.DEDUPE_TTL_SEC (3600), scaled
MaxTurns == 3         \* handle_message calls
MaxInFlight == 2      \* handle_message calls in progress at once
MaxTurnTicks == 0     \* clock ticks a handle_message call may span
RateMax == 2          \* settings.RATE_LIMIT_SESSION_MAX (30), scaled
RateWindow == 1       \* settings.RATE_LIMIT_SESSION_WINDOW_SEC (60), scaled
ConfirmationTtl == 1  \* settings.CONFIRMATION_TTL_SEC (1800), scaled
SessionTtl == 2       \* settings.SESSION_TTL_SEC (86400), scaled
LimMax == 3           \* max_requests of the limiter under test (the stated 3)
LimWindow == 2        \* window_sec of the limiter under test (60), scaled
TicksPerSec == 2      \* clock ticks of one second: time.time() is a float
MaxLimTicks == 6      \* the limiter's clock runs 0..MaxLimTicks
MaxChecks == 5        \* check calls on the limiter under test
OllamaRetries == 1    \* settings.OLLAMA_RETRIES (2), scaled
WideTurns == 1        \* handle_message calls when messages and plans range widely
AuditTurns == 2       \* handle_message calls while the audit writer fails
TtlSpan == 2          \* ttl_sec arguments range over -TtlSpan..TtlSpan
SessionTime == 4      \* the clock of the session runs: past SessionTtl
MaxCalls == 3         \* tool calls of a plan in the tool-loop runs
LoopTurns == 2        \* handle_message calls in the tool-loop runs
MaxLog == 6           \* tools handed to the registry under test, in all
MaxGets == 2          \* get calls on the registry under test

Sessions == {"s1", "s2"}
Stores == {"db", "mem"}

Tokens == 1..MaxConf
NoCode == 0                         \* short_code IS NULL / Python None
Codes == 101..(100 + MaxCodes)      \* the short codes _gen_short_code can draw
Bogus == 99                         \* a value that names no token and no code

----------------------------------------------------------------------------
(* json.dumps / json.loads of a tool-argument mapping.  An argument mapping *)
(* is a function from some of ArgKeys to integers; its JSON text is the     *)
(* sequence of its <<key, value>> pairs in key order.                       *)

ArgKeys == <<"id", "qty">>
NoArgs == [k \in {} |-> 0]

\* The write-tool calls a caller may ask to have confirmed.
CapturedCalls == {[name |-> "create_ticket", args |-> [id |-> 1]],
                  [name |-> "register_customer", args |-> [id |-> 2, qty |-> 1]]}
TicketCall == CHOOSE c \in CapturedCalls : c.name = "create_ticket"
RegisterCall == CHOOSE c \in CapturedCalls : c.name = "register_customer"

JsonDumps(a) ==
  LET present == SelectSeq(ArgKeys, LAMBDA k : k \in DOMAIN a)
  IN [i \in 1..Len(present) |-> <<present[i], a[present[i]]>>]

JsonLoads(s) ==
  [k \in {s[i][1] : i \in DOMAIN s} |->
     LET i == CHOOSE n \in DOMAIN s : s[n][1] = k IN s[i][2]]

----------------------------------------------------------------------------
(* Confirmation stores *)

\* The optional ttl_sec argument of create: absent, or a given number.
NoTtl == [given |-> FALSE, val |-> 0]

\* The create calls made of the stores: (session_id, tool call, ttl_sec).
CreateRequests ==
  {[session_id |-> "s1", call |-> TicketCall, ttl |-> [given |-> TRUE, val |-> 1]],
   [session_id |-> "s1", call |-> RegisterCall, ttl |-> NoTtl],
   [session_id |-> "s2", call |-> RegisterCall, ttl |-> [given |-> TRUE, val |-> 1]]}

\* Create calls over every kind of ttl_sec: absent, zero, negative, positive.
TtlRequests ==
  {[session_id |-> "s1", call |-> TicketCall, ttl |-> x] :
     x \in {NoTtl} \cup {[given |-> TRUE, val |-> v] : v \in (0 - TtlSpan)..TtlSpan}}

\* confirmations_db.py: ttl = int(ttl_sec or self.ttl_sec)
DbTtl(ttl) == IF ttl.given /\ ttl.val # 0 THEN ttl.val ELSE DbConfDefaultTtl

\* confirmations.py: ttl = ttl_sec if given else self.ttl_sec; ttl = max(ttl, 1)
MemTtl(ttl) ==
  LET t == IF ttl.given THEN ttl.val ELSE MemConfDefaultTtl
  IN IF t > 1 THEN t ELSE 1

NoRet == [ok |-> FALSE, token |-> 0, session_id |-> "", tool_name |-> "", tool_args |-> NoArgs]

IdleCreate == [pc |-> "idle", store |-> "db", session_id |-> "", tool_name |-> "",
               tool_args |-> NoArgs, ttl |-> NoTtl, code |-> NoCode,
               created_at |-> 0, expires_at |-> 0]

\* The local variable `row` of consume before the SELECT has run.
NullRow == [token |-> 0, short_code |-> NoCode, session_id |-> "", tool_name |-> "",
            tool_args_json |-> <<>>, status |-> "none", created_at |-> 0,
            expires_at |-> 0, consumed_at |-> 0]

\* A consume call: its arguments (v, sid), the row it read, what it returned,
\* and for the properties the time it returned (at) and the tokens whose
\* create had returned when it was called (born).
IdleConsume == [pc |-> "idle", store |-> "db", v |-> 0, sid |-> "", tok |-> 0,
                row |-> NullRow, ret |-> NoRet, at |-> 0, born |-> {}]

Created == {i \in Tokens : crt[i].pc = "done"}

\* WHERE token = :v OR short_code = :v (a NULL short_code equals nothing)
RowsMatching(table, v) ==
  {r \in table : r.token = v \/ (r.short_code # NoCode /\ r.short_code = v)}

\* SELECT 1 FROM pending_confirmations WHERE short_code = :c LIMIT 1
CodeExists(table, c) == \E r \in table : r.short_code = c

\* The outcomes of the short-code loop of create: a drawn candidate no row
\* carries, or no code at all when every one of the ten draws collided.
ShortCodeOutcomes(table) ==
  {c \in Codes : ~CodeExists(table, c)}
    \cup (IF \E c \in Codes : CodeExists(table, c) THEN {NoCode} ELSE {})

\* UPDATE pending_confirmations SET status = :s [, consumed_at] WHERE ...,
\* targets being the rows the WHERE clause selects
UpdateStatus(table, targets, s, t) ==
  {IF r \in targets
     THEN [r EXCEPT !.status = s,
                    !.consumed_at = IF s = "consumed" THEN t ELSE r.consumed_at]
     ELSE r : r \in table}

\* What the SELECT would do without FOR UPDATE: it never waits.
RowsBlockedNoLock(m) == FALSE
\* A locking read or an UPDATE waits while another transaction holds an
\* X lock on a row it touches.
RowsBlocked(m) == \E r \in m : r.token \in locked

\* MySQLConfirmationStore.create called with a request of R, the short-code
\* loop (SELECTs).
DbCreatePickWith(i, R) ==
  /\ crt[i].pc = "idle"
  /\ \A j \in Tokens : j < i => crt[j].pc # "idle"
  /\ variant = "db"
  /\ \E rq \in R, c \in ShortCodeOutcomes(rows) :
       crt' = [crt EXCEPT ![i] = [IdleCreate EXCEPT
                 !.pc = "picked", !.store = "db", !.session_id = rq.session_id,
                 !.tool_name = rq.call.name, !.tool_args = rq.call.args,
                 !.ttl = rq.ttl, !.code = c]]
  /\ UNCHANGED <<now, rows, locked, pending, cons, dedupeVars, variant, orchVars,
                 cfgVars, limVars, planVars, regVars>>

DbCreatePick(i) == DbCreatePickWith(i, CreateRequests)

\* The row create inserts for token i from what the call c captured.
DbRow(i, c, t) ==
  [token |-> i, short_code |-> c.code, session_id |-> c.session_id,
   tool_name |-> c.tool_name, tool_args_json |-> JsonDumps(c.tool_args),
   status |-> "pending", created_at |-> t, expires_at |-> t + DbTtl(c.ttl),
   consumed_at |-> 0]

\* MySQLConfirmationStore.create, the INSERT and commit.
DbCreateInsert(i) ==
  /\ crt[i].pc = "picked"
  /\ rows' = rows \cup {DbRow(i, crt[i], now)}
  /\ crt' = [crt EXCEPT ![i].pc = "done", ![i].created_at = now,
                        ![i].expires_at = now + DbTtl(crt[i].ttl)]
  /\ UNCHANGED <<now, locked, pending, cons, dedupeVars, variant, orchVars,
                 cfgVars, limVars, planVars, regVars>>

\* ConfirmationManager.create called with a request of R (no await inside:
\* one step).
MemCreateWith(i, R) ==
  /\ crt[i].pc = "idle"
  /\ \A j \in Tokens : j < i => crt[j].pc # "idle"
  /\ variant = "mem"
  /\ \E rq \in R :
       /\ pending' = pending \cup {[token |-> i, session_id |-> rq.session_id,
                                    tool_name |-> rq.call.name,
                                    tool_args |-> rq.call.args,
                                    created_at |-> now,
                                    expires_at |-> now + MemTtl(rq.ttl)]}
       /\ crt' = [crt EXCEPT ![i] = [IdleCreate EXCEPT
                    !.pc = "done", !.store = "mem", !.session_id = rq.session_id,
                    !.tool_name = rq.call.name, !.tool_args = rq.call.args,
                    !.ttl = rq.ttl,
                    !.created_at = now, !.expires_at = now + MemTtl(rq.ttl)]]
  /\ UNCHANGED <<now, rows, locked, cons, dedupeVars, variant, orchVars,
                 cfgVars, limVars, planVars, regVars>>

MemCreate(i) == MemCreateWith(i, CreateRequests)

\* The values a caller may present to consume: a token, a short code, junk.
ConsumeVals == Tokens \cup Codes \cup {Bogus}

\* MySQLConfirmationStore.consume: SELECT ... FOR UPDATE, .first().
DbConsumeSelect(j) ==
  /\ cons[j].pc = "idle"
  /\ variant = "db"
  /\ \A k \in 1..MaxConsumers : k < j => cons[k].pc # "idle"
  /\ \E v \in ConsumeVals, s \in Sessions :
       LET m == RowsMatching(rows, v) IN
       /\ ~RowsBlocked(m)
       /\ IF m = {}
            THEN /\ cons' = [cons EXCEPT ![j] = [IdleConsume EXCEPT
                       !.pc = "done", !.v = v, !.sid = s, !.at = now,
                       !.born = Created]]
                 /\ UNCHANGED locked
            ELSE \E r \in m :
                 /\ cons' = [cons EXCEPT ![j] = [IdleConsume EXCEPT
                       !.pc = "locked", !.v = v, !.sid = s, !.tok = r.token,
                       !.row = r, !.born = Created]]
                 /\ locked' = locked \cup {x.token : x \in m}
  /\ UNCHANGED <<now, rows, pending, crt, dedupeVars, variant, orchVars,
                 cfgVars, limVars, planVars, regVars>>

\* The locks a consume call took: every row its SELECT matched.
HeldLocks(j) == {r.token : r \in RowsMatching(rows, cons[j].v)} \cap locked

DbConsumeRet(r) ==
  [ok |-> TRUE, token |-> r.token, session_id |-> r.session_id,
   tool_name |-> r.tool_name, tool_args |-> JsonLoads(r.tool_args_json)]

\* An expiry test against the row's own creation time: it never fires.
DbExpiredVsCreated(r, t) == r.expires_at < r.created_at
\* expires_at is not None and expires_at < SELECT UTC_TIMESTAMP()
DbExpired(r, t) == r.expires_at < t

\* A consume that marks the row expired when another session presents it.
DbConsumeRowBurnsOnMismatch(table, r, sid, t) ==
  IF r.session_id # sid \/ r.status # "pending" \/ DbExpired(r, t)
    THEN [ret |-> NoRet,
          rows |-> UpdateStatus(table, {x \in table : x.token = r.token /\ x.status = "pending"},
                                "expired", t)]
    ELSE [ret |-> DbConsumeRet(r),
          rows |-> UpdateStatus(table,
                                {x \in table : x.token = r.token /\ x.status = "pending"},
                                "consumed", t)]

\* MySQLConfirmationStore.consume on the row r its SELECT read: the early
\* returns (session mismatch, status), the expiry branch, the UPDATE to
\* consumed.  Gives what the call returns and the table it leaves.
DbConsumeRow(table, r, sid, t) ==
  IF r.session_id # sid \/ r.status # "pending"
    THEN [ret |-> NoRet, rows |-> table]
    ELSE IF DbExpired(r, t)
    THEN [ret |-> NoRet,
          rows |-> UpdateStatus(table, {x \in table : x.token = r.token}, "expired", t)]
    ELSE [ret |-> DbConsumeRet(r),
          rows |-> UpdateStatus(table,
                                {x \in table : x.token = r.token /\ x.status = "pending"},
                                "consumed", t)]

\* MySQLConfirmationStore.consume after the SELECT; commit or rollback frees
\* the locks.
DbConsumeFinish(j) ==
  /\ cons[j].pc = "locked"
  /\ LET o == DbConsumeRow(rows, cons[j].row, cons[j].sid, now) IN
     /\ rows' = o.rows
     /\ cons' = [cons EXCEPT ![j].pc = "done", ![j].at = now, ![j].ret = o.ret]
     /\ locked' = locked \ HeldLocks(j)
  /\ UNCHANGED <<now, pending, crt, dedupeVars, variant, orchVars,
                 cfgVars, limVars, planVars, regVars>>

\* A WHERE clause that takes the row expiring this very second as well.
CleanupTargetInclusive(r, t) == r.status = "pending" /\ r.expires_at <= t

\* The same WHERE clause without its status='pending' conjunct.
CleanupTargetAnyStatus(r, t) == r.expires_at < t
\* WHERE status='pending' AND expires_at IS NOT NULL AND expires_at < UTC_TIMESTAMP()
CleanupTarget(r, t) == r.status = "pending" /\ r.expires_at < t

\* cleanup_expired, the table its UPDATE leaves
CleanupExpired(table, t) ==
  UpdateStatus(table, {r \in table : CleanupTarget(r, t)}, "expired", t)

\* MySQLConfirmationStore.cleanup_expired
DbCleanupExpired ==
  /\ \E r \in rows : CleanupTarget(r, now)
  /\ ~RowsBlocked({r \in rows : CleanupTarget(r, now)})
  /\ rows' = CleanupExpired(rows, now)
  /\ UNCHANGED <<now, locked, pending, crt, cons, dedupeVars, variant, orchVars,
                 cfgVars, limVars, planVars, regVars>>

\* ConfirmationManager: now > expires_at
MemExpired(item, t) == t > item.expires_at

\* ConfirmationManager.consume on the dict items: what it returns, the
\* token it popped and the dict it leaves.
MemConsumeItems(items, v, s, t) ==
  LET m == {it \in items : it.token = v} IN
  IF m = {} \/ (\E it \in m : it.session_id # s)
    THEN [ret |-> NoRet, tok |-> IdleConsume.tok, pending |-> items]
    ELSE LET it == CHOOSE x \in m : TRUE IN
         [ret |-> IF MemExpired(it, t) THEN NoRet
                  ELSE [ok |-> TRUE, token |-> it.token,
                        session_id |-> it.session_id,
                        tool_name |-> it.tool_name,
                        tool_args |-> it.tool_args],
          tok |-> it.token,
          pending |-> items \ {it}]

\* ConfirmationManager.consume (no await inside: one step).
MemConsume(j) ==
  /\ cons[j].pc = "idle"
  /\ variant = "mem"
  /\ \A k \in 1..MaxConsumers : k < j => cons[k].pc # "idle"
  /\ \E v \in ConsumeVals, s \in Sessions :
       LET o == MemConsumeItems(pending, v, s, now) IN
       /\ pending' = o.pending
       /\ cons' = [cons EXCEPT ![j] = [IdleConsume EXCEPT
             !.pc = "done", !.store = "mem", !.v = v, !.sid = s, !.at = now,
             !.born = Created, !.tok = o.tok, !.ret = o.ret]]
  /\ UNCHANGED <<now, rows, locked, crt, dedupeVars, variant, orchVars,
                 cfgVars, limVars, planVars, regVars>>

\* ConfirmationManager.cleanup, the dict it leaves
MemCleanupItems(items, t) == {it \in items : ~MemExpired(it, t)}

\* ConfirmationManager.cleanup
MemCleanup ==
  /\ \E it \in pending : MemExpired(it, now)
  /\ pending' = MemCleanupItems(pending, now)
  /\ UNCHANGED <<now, rows, locked, crt, cons, dedupeVars, variant, orchVars,
                 cfgVars, limVars, planVars, regVars>>

\* time passes up to max; a turn in progress sees at most MaxTurnTicks ticks
\* go by
TickTo(max) ==
  /\ now < max
  /\ \A t \in 1..MaxTurns :
       turns[t].pc \notin {"idle", "done"} => now - turns[t].at < MaxTurnTicks
  /\ now' = now + 1
  /\ UNCHANGED <<confVars, dedupeVars, variant, orchVars,
                 cfgVars, limVars, planVars, regVars>>

Tick == TickTo(MaxTime)

----------------------------------------------------------------------------
(* Dedupe stores *)

Providers == {"whatsapp", "provider_webhook"}

\* api/channels: the whatsapp (and web) orchestrator is wired to a
\* MemoryDedupeStore, the provider webhook to the MySQLDedupeStore.
DedupeStoreOf(p) == IF p = "provider_webhook" THEN "db" ELSE "mem"
MsgIds == {"m1", "m2"}

IdleMark == [pc |-> "idle", store |-> "db", provider |-> "", message_id |-> "",
             t0 |-> 0, at |-> 0, b |-> 0, e |-> 0, live0 |-> FALSE, ret |-> FALSE]

\* dedupe_mysql.py: ttl = ttl_sec or self.ttl_sec_default
DbDedupeTtl(ttl) == IF ttl.given /\ ttl.val # 0 THEN ttl.val ELSE DedupeTtl

\* the PRIMARY KEY (provider, message_id) of dedupe_messages
DbKeyExists(table, p, m) == \E r \in table : r.provider = p /\ r.message_id = m

\* dedupe.py: key = f"{provider}:{message_id}" (the channel names hold no colon)
MemKey(p, m) == <<p, m>>

\* An expiry test that drops the entry one second early (>= for >).
MemDedupeExpiredEarly(ts, t) == t - ts >= DedupeTtl
\* MemoryDedupeStore._cleanup: now - ts > ttl
MemDedupeExpired(ts, t) == t - ts > DedupeTtl

MemDedupeSweep(store, t) == {x \in store : ~MemDedupeExpired(x.ts, t)}

\* Whether an unexpired record of the pair exists (now <= expires_at).
DbLive(table, p, m, t) ==
  \E r \in table : r.provider = p /\ r.message_id = m /\ t <= r.expires_at
MemLive(store, p, m, t) ==
  \E x \in store : x.key = MemKey(p, m) /\ t - x.ts <= DedupeTtl

\* MySQLDedupeStore.mark up to the INSERT: ttl, now and expires_at are computed.
DbMarkBegin(p) ==
  /\ mk[p].pc = "idle"
  /\ \A q \in 1..MaxMarkers : q < p => mk[q].pc # "idle"
  /\ \E pr \in {x \in Providers : DedupeStoreOf(x) = "db"}, m \in MsgIds :
       mk' = [mk EXCEPT ![p] = [IdleMark EXCEPT
                !.pc = "insert", !.store = "db", !.provider = pr, !.message_id = m,
                !.t0 = now, !.b = clock + 1, !.live0 = DbLive(drows, pr, m, now)]]
  /\ clock' = clock + 1
  /\ UNCHANGED <<now, confVars, drows, dmem, marks, variant, orchVars,
                 cfgVars, limVars, planVars, regVars>>

\* The result of the INSERT: True, or False on IntegrityError (duplicate key).
DbMarkResult(table, p, m) == ~DbKeyExists(table, p, m)

\* The INSERT of MySQLDedupeStore.mark with the times computed at t0: what
\* mark returns and the table it leaves.
DbMarkApply(table, pr, m, t0, ttl) ==
  LET first == DbMarkResult(table, pr, m) IN
  [ret |-> first,
   table |-> IF first
               THEN table \cup {[provider |-> pr, message_id |-> m,
                                 first_seen_at |-> t0,
                                 expires_at |-> t0 + DbDedupeTtl(ttl)]}
               ELSE table]

\* MySQLDedupeStore.mark: INSERT, commit / IntegrityError, rollback.
DbMarkInsert(p) ==
  /\ mk[p].pc = "insert"
  /\ LET pr == mk[p].provider
         m == mk[p].message_id
         ttl == [given |-> TRUE, val |-> DedupeTtl]
         o == DbMarkApply(drows, pr, m, mk[p].t0, ttl)
     IN
     /\ drows' = o.table
     /\ mk' = [mk EXCEPT ![p].pc = "done", ![p].ret = o.ret, ![p].at = now,
                      ![p].e = clock + 1]
     /\ marks' = Append(marks, [store |-> "db", provider |-> pr, message_id |-> m,
                                at |-> now, exp |-> mk[p].t0 + DbDedupeTtl(ttl),
                                ret |-> o.ret])
  /\ clock' = clock + 1
  /\ UNCHANGED <<now, confVars, dmem, variant, orchVars,
                 cfgVars, limVars, planVars, regVars>>

\* MySQLDedupeStore.cleanup: DELETE FROM dedupe_messages WHERE expires_at < :now
DbDedupeCleanup ==
  /\ \E r \in drows : r.expires_at < now
  /\ drows' = {r \in drows : ~(r.expires_at < now)}
  /\ UNCHANGED <<now, confVars, dmem, mk, marks, clock, variant, orchVars,
                 cfgVars, limVars, planVars, regVars>>

\* MemoryDedupeStore.mark: sweep, test, insert; what it returns and the
\* store it leaves.
MemMarkApply(store, pr, m, t) ==
  LET swept == MemDedupeSweep(store, t)
      first == ~(\E x \in swept : x.key = MemKey(pr, m))
  IN [ret |-> first,
      store |-> IF first THEN swept \cup {[key |-> MemKey(pr, m), ts |-> t]}
                ELSE swept]

\* MemoryDedupeStore.mark (no await inside: one step).
MemMark(p) ==
  /\ mk[p].pc = "idle"
  /\ \A q \in 1..MaxMarkers : q < p => mk[q].pc # "idle"
  /\ \E pr \in {x \in Providers : DedupeStoreOf(x) = "mem"}, m \in MsgIds :
       LET o == MemMarkApply(dmem, pr, m, now) IN
       /\ dmem' = o.store
       /\ mk' = [mk EXCEPT ![p] = [IdleMark EXCEPT
                   !.pc = "done", !.store = "mem", !.provider = pr, !.message_id = m,
                   !.t0 = now, !.at = now, !.b = clock + 1, !.e = clock + 1,
                   !.live0 = MemLive(dmem, pr, m, now), !.ret = o.ret]]
       /\ marks' = Append(marks, [store |-> "mem", provider |-> pr, message_id |-> m,
                                  at |-> now, exp |-> now + DedupeTtl, ret |-> o.ret])
  /\ clock' = clock + 1
  /\ UNCHANGED <<now, confVars, drows, variant, orchVars,
                 cfgVars, limVars, planVars, regVars>>

\* MemoryDedupeStore.cleanup
MemDedupeCleanup ==
  /\ MemDedupeSweep(dmem, now) # dmem
  /\ dmem' = MemDedupeSweep(dmem, now)
  /\ UNCHANGED <<now, confVars, drows, mk, marks, clock, variant, orchVars,
                 cfgVars, limVars, planVars, regVars>>

----------------------------------------------------------------------------
(* The orchestrator: AgentOrchestrator.handle_message.  One process serves  *)
(* the three channels on one event loop, so the code between two awaits of  *)
(* a turn (planner.plan, tool.run, answerer.answer) is one step.            *)

Turns == 1..MaxTurns
Channels == {"web", "whatsapp", "provider_webhook"}
NoMsgId == ""                       \* message_id is None
NoToken == 0                        \* _extract_confirm_token returned None

\* The declared scopes of the registered tools (plugins/*.py).
ToolScopes == [create_ticket |-> {"write"}, register_customer |-> {"write"},
               get_report |-> {"read"}, get_help |-> {"read"}]

\* tool_registry.get(name) is not None
RegistryGet(name) == name \in DOMAIN ToolScopes

\* A loop without the write-scope test: no tool asks for confirmation.
RequiresConfirmationNever(name) == FALSE
\* if "write" in tool.scopes
RequiresConfirmation(name) == "write" \in ToolScopes[name]

ReportCall == [name |-> "get_report", args |-> [id |-> 3]]
UnknownCall == [name |-> "drop_tables", args |-> [id |-> 4]]
\* get_report without the fields ReportArgs requires
BadArgsCall == [name |-> "get_report", args |-> NoArgs]
\* get_report asked a second time, for something else
ReportAgain == [name |-> "get_report", args |-> [id |-> 5]]
HelpCall == [name |-> "get_help", args |-> NoArgs]

\* The message texts: whether whitespace surrounds the text, whether it is
\* typed in capitals, its first word or phrase (spelled in lower case), the
\* token that follows it after a blank (NoToken: nothing follows), and a
\* phrase further on.
Text(head, arg) ==
  [pad |-> FALSE, upper |-> FALSE, head |-> head, arg |-> arg, rest |-> ""]
PlainText == Text("hola", NoToken)
RegisterText == Text("registrar cliente", NoToken)
ConfirmText(k) == Text("confirm", k)

\* str.strip()
Strip(text) == [text EXCEPT !.pad = FALSE]
\* str.lower()
Lower(text) == [text EXCEPT !.upper = FALSE]
\* low.startswith(w + " ")
StartsWith(text, w) ==
  ~text.pad /\ ~text.upper /\ text.head = w /\ text.arg # NoToken
\* k in msg_low
Contains(text, k) == ~text.upper /\ (text.head = k \/ text.rest = k)

\* The inbound messages the channels hand to handle_message.
Inbound ==
  {[channel |-> "web", session_id |-> "s1", message_id |-> NoMsgId, text |-> PlainText],
   [channel |-> "web", session_id |-> "s1", message_id |-> NoMsgId, text |-> ConfirmText(1)],
   [channel |-> "web", session_id |-> "s2", message_id |-> NoMsgId, text |-> ConfirmText(1)],
   [channel |-> "provider_webhook", session_id |-> "s1", message_id |-> "m1", text |-> PlainText],
   [channel |-> "whatsapp", session_id |-> "s1", message_id |-> "m1", text |-> RegisterText]}
NoMsg == [channel |-> "", session_id |-> "", message_id |-> NoMsgId, text |-> PlainText]

WebMsg(text) ==
  [channel |-> "web", session_id |-> "s1", message_id |-> NoMsgId, text |-> text]

\* A wider range of inbound messages: capitals, surrounding whitespace, a
\* registration phrase further on, "confirmar", the bare word "confirm".
InboundWide ==
  {WebMsg(PlainText),
   WebMsg([RegisterText EXCEPT !.upper = TRUE]),
   WebMsg([PlainText EXCEPT !.rest = "alta usuario"]),
   WebMsg([Text("confirmar", Bogus) EXCEPT !.pad = TRUE, !.upper = TRUE]),
   WebMsg(ConfirmText(1)),
   WebMsg(Text("confirm", NoToken)),
   [channel |-> "whatsapp", session_id |-> "s1", message_id |-> "m1", text |-> PlainText],
   [channel |-> "provider_webhook", session_id |-> "s1", message_id |-> "m1",
    text |-> RegisterText]}

\* _extract_confirm_token: raw = text.strip(); low = raw.lower();
\* low.startswith("confirm ") / low.startswith("confirmar ");
\* raw.split(" ", 1)[1].strip()
ExtractConfirmToken(text) ==
  LET raw == Strip(text)
      low == Lower(raw)
  IN IF StartsWith(low, "confirm") \/ StartsWith(low, "confirmar")
       THEN raw.arg ELSE NoToken

RegisterPhrases ==
  {"registrar cliente", "alta cliente", "crear cliente", "nuevo cliente",
   "registrar usuario", "alta usuario", "crear usuario"}

\* A phrase test on the text as typed, without lower().
WantsRegisterCustomerAsTyped(text) == \E k \in RegisterPhrases : Contains(text, k)
\* msg_low = (msg.message or "").lower(); any(k in msg_low for k in [...])
WantsRegisterCustomer(text) == \E k \in RegisterPhrases : Contains(Lower(text), k)

\* The validated outputs the planner may hand back.
NoPlan == [intent |-> "", tool_calls |-> <<>>, missing |-> <<>>, final |-> ""]
Plans ==
  {[intent |-> "write_action", tool_calls |-> <<TicketCall>>, missing |-> <<>>, final |-> ""],
   [intent |-> "read_data", tool_calls |-> <<ReportCall, RegisterCall>>, missing |-> <<>>, final |-> ""],
   [intent |-> "faq", tool_calls |-> <<>>, missing |-> <<>>, final |-> "text"],
   [intent |-> "read_data", tool_calls |-> <<>>, missing |-> <<"periodo">>, final |-> ""],
   [intent |-> "write_action", tool_calls |-> <<>>, missing |-> <<>>, final |-> "text"],
   [intent |-> "read_data", tool_calls |-> <<ReportCall>>, missing |-> <<>>, final |-> ""],
   [intent |-> "read_data", tool_calls |-> <<UnknownCall>>, missing |-> <<>>, final |-> ""]}

\* A wider range of validated plans: every combination of intent, tool
\* calls, missing list and final text.
PlansWide ==
  [intent : {"faq", "write_action"},
   tool_calls : {<<>>, <<ReportCall>>, <<TicketCall>>, <<ReportCall, RegisterCall>>,
                 <<UnknownCall>>},
   missing : {<<>>, <<"periodo">>},
   final : {"", "f1", "f2"}]

\* What str(e) of a failed planner.plan may read.
PlanErrors == {"LLMError: after retries", "LLMError: invalid after repair"}

\* settings.ENABLE_ANSWERER
EnableAnswerer == TRUE

\* What create returned: {"token": token, "short_code": short_code or token}
NoCreateRet == [token |-> NoToken, short_code |-> NoCode]
DbCreateRet(i, c) == [token |-> i, short_code |-> IF c # NoCode THEN c ELSE i]

\* A development environment alone switches the debug channel on.
DebugEnabledDevOnly == env = "dev"
\* _debug_enabled: self.settings.ENV == "dev" and self.settings.EXPOSE_DEBUG
DebugEnabled == env = "dev" /\ expose_debug

\* AgentResponse.debug: None, or a dict with these keys (and, under "error",
\* the text of the exception)
NoDebug == [present |-> FALSE, keys |-> {}, error |-> ""]
\* debug={...} if self._debug_enabled() else None
Debug(keys) ==
  IF DebugEnabled THEN [present |-> TRUE, keys |-> keys, error |-> ""] ELSE NoDebug

\* AgentResponse: intent; reply (kind: which reply template, text: the text
\* put into it verbatim); missing; data (its keys, and the confirmation it
\* carries); debug
NoReply == [intent |-> "", kind |-> "", text |-> "", missing |-> <<>>,
            confirm |-> NoCreateRet, data |-> {}, debug |-> NoDebug]
Response(intent, kind) == [NoReply EXCEPT !.intent = intent, !.kind = kind]

\* A turn: its position (pc), its message, and what it did so far.
\* tool_results: Dict[str, Any] = {}: for each tool name, the call of the
\* plan (its index) whose result the dict holds
NoResults == [k \in {} |-> 0]

\* A dict that keeps the entry it has (setdefault).
SetResultKeepsFirst(d, name, n) ==
  [k \in DOMAIN d \cup {name} |-> IF k \in DOMAIN d THEN d[k] ELSE n]

\* tool_results[tc.name] = result
SetResult(d, name, n) ==
  [k \in DOMAIN d \cup {name} |-> IF k = name THEN n ELSE d[k]]

IdleTurn == [pc |-> "idle", msg |-> NoMsg, at |-> 0, mark |-> "none", live |-> FALSE,
             plan |-> NoPlan, idx |-> 0, via |-> "", cur |-> "", confirmed |-> FALSE,
             planned |-> FALSE, tried |-> 0,
             finalized |-> FALSE, conf |-> NoToken, results |-> {},
             tool_results |-> NoResults, reply |-> NoReply]

----------------------------------------------------------------------------
(* MemoryFixedWindowLimiter *)

\* An eviction test that also drops the entry made exactly window_sec ago.
BeforeCutoffInclusive(ts, cutoff) == ts <= cutoff
\* q[0] < cutoff
BeforeCutoff(ts, cutoff) == ts < cutoff

RECURSIVE PopExpired(_, _)
\* while q and q[0] < cutoff: q.popleft()
PopExpired(q, cutoff) ==
  IF q # <<>> /\ BeforeCutoff(q[1], cutoff) THEN PopExpired(Tail(q), cutoff) ELSE q

\* A retry hint without the max(1, ...) floor.
RetryAfterNoFloor(wait, tps) == wait \div tps
\* int(max(1, (q[0] + self.window_sec) - now)); wait is the float difference
\* in clock ticks, tps the ticks of one second, int() truncates
RetryAfter(wait, tps) == (IF wait > tps THEN wait ELSE tps) \div tps

\* MemoryFixedWindowLimiter.check of a limiter built with max_requests = max
\* and window_sec = window; q and t are in clock ticks, tps ticks a second.
LimiterCheck(q, t, max, window, tps) ==
  LET q1 == PopExpired(q, t - window * tps) IN
  IF Len(q1) >= max
    THEN [allowed |-> FALSE, q |-> q1,
          retry_after |-> RetryAfter(q1[1] + window * tps - t, tps)]
    ELSE [allowed |-> TRUE, q |-> Append(q1, t), retry_after |-> 0]

\* session_limiter.check(f"sess:{session_id}"); the orchestrator's clock
\* ticks in whole seconds
RateCheck(q, t) == LimiterCheck(q, t, RateMax, RateWindow, 1)

\* The limiter on its own: check calls on a few keys while time passes.
LimKeys == {"sess:s1", "sess:s2"}

\* limiter.check(key)
LimCheck(key) ==
  /\ Len(lcalls) < MaxChecks
  /\ LET r == LimiterCheck(lbuckets[key], lnow, LimMax, LimWindow, TicksPerSec) IN
     /\ lbuckets' = [lbuckets EXCEPT ![key] = r.q]
     /\ lcalls' = Append(lcalls, [key |-> key, at |-> lnow, allowed |-> r.allowed,
                                  retry_after_sec |-> r.retry_after])
  /\ UNCHANGED <<lnow, now, confVars, dedupeVars, variant, orchVars, cfgVars, planVars, regVars>>

\* time.time() moves on
LimTick ==
  /\ lnow < MaxLimTicks
  /\ lnow' = lnow + 1
  /\ UNCHANGED <<lbuckets, lcalls, now, confVars, dedupeVars, variant, orchVars,
                 cfgVars, planVars, regVars>>

----------------------------------------------------------------------------
(* MySQLSessionStore *)

NoSession == [present |-> FALSE, history_json |-> <<>>, expires_at |-> 0]

\* json.dumps / json.loads of the history list
HistoryDumps(h) == [i \in DOMAIN h |-> <<h[i].in, h[i].out, h[i].intent>>]
HistoryLoads(s) == [i \in DOMAIN s |-> [in |-> s[i][1], out |-> s[i][2], intent |-> s[i][3]]]

\* get_sync(session_id) or {"history": [], "facts": {}}
SessionGet(store, sid, t) ==
  IF store[sid].present /\ ~(store[sid].expires_at < t)
    THEN HistoryLoads(store[sid].history_json) ELSE <<>>

\* A store that inserts and leaves a row it finds as it is (INSERT IGNORE).
SessionSetIfAbsent(store, sid, h, t) ==
  IF store[sid].present THEN store
  ELSE [store EXCEPT ![sid] = [present |-> TRUE, history_json |-> HistoryDumps(h),
                               expires_at |-> t + SessionTtl]]

\* set_sync: INSERT ... ON DUPLICATE KEY UPDATE
SessionSet(store, sid, h, t) ==
  [store EXCEPT ![sid] = [present |-> TRUE, history_json |-> HistoryDumps(h),
                          expires_at |-> t + SessionTtl]]

----------------------------------------------------------------------------
(* The steps of a turn, as functions of the state they read and write *)

\* The event types whose INSERT into audit_events fails at the moment.
EventTypes == {"IN", "PLAN", "TOOL", "OUT", "ERROR"}
AuditOutage == [IN |-> "audit_events:IN", PLAN |-> "audit_events:PLAN",
                TOOL |-> "audit_events:TOOL", OUT |-> "audit_events:OUT",
                ERROR |-> "audit_events:ERROR"]
WriterDown == {x \in EventTypes : AuditOutage[x] \in down}

\* What a step of a turn reads and writes; wfail: the event types for which
\* writer.append raises during the step.
OrchWith(W) == [turns |-> turns, events |-> events, sess |-> sess, rows |-> rows,
                crt |-> crt, execs |-> execs, audit |-> audit, buckets |-> buckets,
                drows |-> drows, dmem |-> dmem, wfail |-> W]
OrchNow == OrchWith(WriterDown)

Commit(st) ==
  /\ turns' = st.turns /\ events' = st.events /\ sess' = st.sess
  /\ rows' = st.rows /\ crt' = st.crt /\ execs' = st.execs
  /\ audit' = st.audit /\ buckets' = st.buckets
  /\ drows' = st.drows /\ dmem' = st.dmem

\* self.event_bus.append({...})
Event(type, t, m, intent, tool, confirmed) ==
  [type |-> type, request_id |-> t, session_id |-> m.session_id, channel |-> m.channel,
   intent |-> intent, tool_name |-> tool, confirmed |-> confirmed, error |-> ""]

\* api/channels: the web and provider-webhook buses are built with a
\* MySQLAuditWriter, the whatsapp bus with none.
HasWriter(channel) == channel \in {"web", "provider_webhook"}

\* A bus that persists first and keeps in memory only what was persisted.
EmitPersistedOnly(st, e) ==
  IF HasWriter(e.channel) /\ e.type \in st.wfail
    THEN st
    ELSE [st EXCEPT !.events[e.channel] = Append(@, e),
                    !.audit[e.channel] = IF HasWriter(e.channel) THEN Append(@, e) ELSE @]
\* EventBus.append: self._events.append(evt); then, if there is a writer,
\* writer.append(evt) (the INSERT and commit) with every Exception swallowed
Emit(st, e) ==
  [st EXCEPT !.events[e.channel] = Append(@, e),
             !.audit[e.channel] = IF HasWriter(e.channel) /\ e.type \notin st.wfail
                                    THEN Append(@, e) ELSE @]

\* An exception that leaves handle_message: no response is built.
FailPropagates(st, t, err) == [st EXCEPT !.turns[t].pc = "raised"]
\* A handler that hands back what the tools returned before the failure.
FailKeepsResults(st, t, err) ==
  [Emit(st, [Event("ERROR", t, st.turns[t].msg, "", "", FALSE) EXCEPT !.error = err])
   EXCEPT
     !.turns[t].pc = "done",
     !.turns[t].reply =
        [Response("error", "error") EXCEPT
           !.data = IF st.turns[t].results # {} THEN {"tool_results"} ELSE {},
           !.debug = IF DebugEnabled
                       THEN [present |-> TRUE, keys |-> {"error"}, error |-> err]
                       ELSE NoDebug]]

\* A handler that takes the dedupe record of the failed message back.
FailUnmarks(st, t, err) ==
  LET m == st.turns[t].msg IN
  [Emit(st, [Event("ERROR", t, m, "", "", FALSE) EXCEPT !.error = err])
   EXCEPT
     !.drows = {r \in @ : ~(r.provider = m.channel /\ r.message_id = m.message_id)},
     !.dmem = {x \in @ : x.key # MemKey(m.channel, m.message_id)},
     !.turns[t].pc = "done",
     !.turns[t].reply =
        [Response("error", "error") EXCEPT
           !.debug = IF DebugEnabled
                       THEN [present |-> TRUE, keys |-> {"error"}, error |-> err]
                       ELSE NoDebug]]

\* except Exception as e: ERROR event carrying str(e), and the fixed error
\* reply, with the exception text under debug only when debug is enabled
Fail(st, t, err) ==
  [Emit(st, [Event("ERROR", t, st.turns[t].msg, "", "", FALSE) EXCEPT !.error = err])
   EXCEPT
     !.turns[t].pc = "done",
     !.turns[t].reply =
        [Response("error", "error") EXCEPT
           !.debug = IF DebugEnabled
                       THEN [present |-> TRUE, keys |-> {"error"}, error |-> err]
                       ELSE NoDebug]]

\* _finalize: read the session, append the exchange, write it back (either
\* raises while the session store is down), OUT event, the response with
\* debug=debug if self._debug_enabled() else None
Finalize(st, t, r) ==
  IF "session_store" \in down
    THEN Fail(st, t, "OperationalError")
    ELSE
    LET m == st.turns[t].msg
        h == Append(SessionGet(st.sess, m.session_id, now),
                    [in |-> m.text.head, out |-> r.kind, intent |-> r.intent])
    IN [Emit(st, Event("OUT", t, m, r.intent, "", FALSE)) EXCEPT
          !.sess = SessionSet(@, m.session_id, h, now),
          !.turns[t].pc = "done", !.turns[t].finalized = TRUE,
          !.turns[t].reply = [r EXCEPT !.debug = IF DebugEnabled THEN @ ELSE NoDebug]]

\* The fields each tool's input_model requires (the scaled arguments carry
\* their required fields under "id").
RequiredArgs == [create_ticket |-> {"id"}, register_customer |-> {"id"},
                 get_report |-> {"id"}, get_help |-> {}]

\* An executor whose input models accept any arguments.
ArgsValidAlways(call) == TRUE
\* parsed = tool.input_model.model_validate(args)
ArgsValid(call) == RequiredArgs[call.name] \subseteq DOMAIN call.args

\* _run_tool up to `await tool.run(parsed, ctx)`; tried counts the calls of
\* _run_tool the turn made
RunTool(st0, t, call, confirmed, tok) ==
  LET st == [st0 EXCEPT !.turns[t].tried = @ + 1] IN
  IF ~RegistryGet(call.name)
    THEN Fail(st, t, "ToolError")
  ELSE IF ~ArgsValid(call)
    THEN Fail(st, t, "ValidationError")
    ELSE [st EXCEPT
            !.execs = @ \cup {[request_id |-> t, n |-> st.turns[t].idx,
                               session_id |-> st.turns[t].msg.session_id,
                               tool_name |-> call.name, args |-> call.args,
                               confirmed |-> confirmed, token |-> tok]},
            !.turns[t].pc = "tool", !.turns[t].cur = call.name,
            !.turns[t].confirmed = confirmed]

\* The tokens create has not handed out yet.
FreeTokens(c) == {i \in Tokens : c[i].pc = "idle"}

\* A handler that queues the last call of the plan, not the one it reached.
CreateConfirmationOfLast(st, t, call, code) ==
  LET i == CHOOSE x \in FreeTokens(st.crt) : \A y \in FreeTokens(st.crt) : x <= y
      ttl == [given |-> TRUE, val |-> ConfirmationTtl]
      calls == st.turns[t].plan.tool_calls
      c == [IdleCreate EXCEPT
              !.pc = "done", !.store = "db",
              !.session_id = st.turns[t].msg.session_id,
              !.tool_name = calls[Len(calls)].name, !.tool_args = calls[Len(calls)].args,
              !.ttl = ttl,
              !.code = code, !.created_at = now, !.expires_at = now + DbTtl(ttl)]
  IN [st EXCEPT !.crt[i] = c, !.rows = @ \cup {DbRow(i, c, now)},
                !.turns[t].conf = i]

\* _create_confirmation: MySQLConfirmationStore.create with CONFIRMATION_TTL_SEC
CreateConfirmation(st, t, call, code) ==
  LET i == CHOOSE x \in FreeTokens(st.crt) : \A y \in FreeTokens(st.crt) : x <= y
      ttl == [given |-> TRUE, val |-> ConfirmationTtl]
      c == [IdleCreate EXCEPT
              !.pc = "done", !.store = "db",
              !.session_id = st.turns[t].msg.session_id,
              !.tool_name = call.name, !.tool_args = call.args, !.ttl = ttl,
              !.code = code, !.created_at = now, !.expires_at = now + DbTtl(ttl)]
  IN [st EXCEPT !.crt[i] = c, !.rows = @ \cup {DbRow(i, c, now)},
                !.turns[t].conf = i]

\* Whether the next pass of the tool loop reaches a write tool.
LoopCreates(tr) ==
  /\ tr.idx + 1 <= Len(tr.plan.tool_calls)
  /\ RegistryGet(tr.plan.tool_calls[tr.idx + 1].name)
  /\ RequiresConfirmation(tr.plan.tool_calls[tr.idx + 1].name)

\* for tc in plan.tool_calls: ... up to the next await; then the answerer
LoopStep(st, t, code) ==
  LET tr == st.turns[t]
      i == tr.idx + 1
  IN IF i > Len(tr.plan.tool_calls)
       THEN IF EnableAnswerer
              THEN [st EXCEPT !.turns[t].pc = "answering"]
              ELSE Finalize(st, t, [Response(tr.plan.intent, "fallback") EXCEPT
                                      !.data = {"slots", "tool_results"},
                                      !.debug = Debug({"plan", "tool_results"})])
       ELSE LET tc == tr.plan.tool_calls[i] IN
            IF ~RegistryGet(tc.name)
              THEN Fail(st, t, "ToolError")
            ELSE IF RequiresConfirmation(tc.name)
              THEN IF "confirmation_store" \in down
                     THEN Fail(st, t, "OperationalError")
                     ELSE LET st1 == CreateConfirmation(st, t, tc, code)
                          IN Finalize(st1, t,
                               [Response(tr.plan.intent, "needs_confirmation") EXCEPT
                                  !.confirm = DbCreateRet(st1.turns[t].conf, code),
                                  !.data = {"pending_confirmation"},
                                  !.debug = Debug({"plan"})])
            ELSE RunTool([st EXCEPT !.turns[t].idx = i], t, tc, FALSE, NoToken)

\* A guardrail rejection: intent "error", the plan under data
Rejected(st, t, kind) ==
  Finalize(st, t, [Response("error", kind) EXCEPT
                     !.data = {"slots", "plan"}, !.debug = Debug({"plan"})])

\* A write-intent test that lets a plan with a final text through.
WriteWithoutCallAndFinal(plan) ==
  plan.intent = "write_action" /\ plan.tool_calls = <<>> /\ plan.final = ""
\* if plan.intent == "write_action" and not plan.tool_calls
WriteWithoutCall(plan) == plan.intent = "write_action" /\ plan.tool_calls = <<>>

\* A final test that does not look at the tool calls.
FinalAllowedDespiteCalls(plan) == plan.final # "" /\ plan.intent # "write_action"
\* if plan.final and not plan.tool_calls and plan.intent != "write_action"
FinalAllowed(plan) ==
  plan.final # "" /\ plan.tool_calls = <<>> /\ plan.intent # "write_action"
\* if plan.final and not plan.tool_calls (the second final check)
FinalFallback(plan) == plan.final # "" /\ plan.tool_calls = <<>>

\* The final short circuit: the plan's final text verbatim
FinalReply(st, t) ==
  LET plan == st.turns[t].plan
  IN Finalize(st, t, [Response(plan.intent, "final") EXCEPT
                        !.text = plan.final, !.data = {"slots"},
                        !.debug = Debug({"plan"})])

\* A clarifying question that leaves the missing list of the response empty.
AskMissingNoList(st, t) ==
  LET plan == st.turns[t].plan
  IN Finalize(st, t, [Response(plan.intent, "ask_missing") EXCEPT
                        !.data = {"slots"}, !.debug = Debug({"plan"})])
\* if plan.missing: reply = self._ask_for_missing(plan.missing); _finalize
\* with intent=plan.intent, missing=list(plan.missing)
AskMissing(st, t) ==
  LET plan == st.turns[t].plan
  IN Finalize(st, t, [Response(plan.intent, "ask_missing") EXCEPT
                        !.missing = plan.missing, !.data = {"slots"},
                        !.debug = Debug({"plan"})])

\* The guardrails, the missing and final short circuits, then the tool loop.
AfterPlan(st, t, code) ==
  LET tr == st.turns[t]
      plan == tr.plan
      wants == WantsRegisterCustomer(tr.msg.text)
  IN IF wants /\ plan.tool_calls = <<>>
       THEN Rejected(st, t, "guardrail_no_tool")
     ELSE IF /\ wants /\ plan.tool_calls # <<>>
             /\ plan.tool_calls[1].name # "register_customer"
             /\ RegistryGet("register_customer")
       THEN Rejected(st, t, "guardrail_register")
     ELSE IF WriteWithoutCall(plan)
       THEN Rejected(st, t, "guardrail_write")
     ELSE IF plan.missing # <<>>
       THEN AskMissing(st, t)
     ELSE IF FinalAllowed(plan)
       THEN FinalReply(st, t)
     ELSE IF FinalFallback(plan)
       THEN FinalReply(st, t)
     ELSE LoopStep(st, t, code)

\* confirmations_store.consume(db, token=token, session_id=session_id) against
\* def consume(self, db, token_or_code, session_id): the keywords of the call
\* must name parameters, or Python raises TypeError.
ConsumeParams == {"db", "token_or_code", "session_id"}
ConsumeKeywords == {"token", "session_id"}

\* Reads the row and hands back its payload, changing nothing.
ConsumeConfirmationPeek(table, v, sid, t) ==
  IF RowsMatching(table, v) = {}
    THEN {[raised |-> FALSE, ret |-> NoRet, rows |-> table]}
    ELSE {[raised |-> FALSE, ret |-> DbConsumeRet(r), rows |-> table] :
            r \in RowsMatching(table, v)}

\* _consume_confirmation: the outcomes of the call (raised, or what consume
\* returned and the table it left).
ConsumeConfirmation(table, v, sid, t) ==
  IF ~(ConsumeKeywords \subseteq ConsumeParams)
    THEN {[raised |-> TRUE, ret |-> NoRet, rows |-> table]}
    ELSE IF RowsMatching(table, v) = {}
    THEN {[raised |-> FALSE, ret |-> NoRet, rows |-> table]}
    ELSE {[raised |-> FALSE] @@ DbConsumeRow(table, r, sid, t) :
            r \in RowsMatching(table, v)}

\* A channel handler that ignores what mark returned.
IsDuplicateNever(hasId, first) == FALSE
\* if not is_first: return the duplicate reply
IsDuplicate(hasId, first) == hasId /\ ~first

\* Whether value v names a pending, unexpired confirmation owned by sid.
NamesLive(table, v, sid, t) ==
  \E r \in RowsMatching(table, v) :
    r.status = "pending" /\ r.session_id = sid /\ ~DbExpired(r, t)

\* handle_message of an admitted message (tr1: the turn so far): session
\* load, IN event, the confirm shortcut up to tool.run, or up to the first
\* await of the planning path.  The outcomes of the step.
Admitted(st, t, tr1) ==
  LET m == tr1.msg
      k == ExtractConfirmToken(m.text)
      st0 == Emit([st EXCEPT !.turns[t] = tr1], Event("IN", t, m, "", "", FALSE))
  IN IF "session_store" \in down
       THEN {Fail([st EXCEPT !.turns[t] = tr1], t, "OperationalError")}
     ELSE IF k = NoToken
       THEN {[st0 EXCEPT !.turns[t].pc = "planning", !.turns[t].planned = TRUE]}
     ELSE {LET st1 == [st0 EXCEPT !.rows = o.rows, !.turns[t].via = "confirm"] IN
           IF o.raised
             THEN Fail(st1, t, "TypeError")
           ELSE IF ~o.ret.ok
             THEN Finalize(st1, t, Response("write_action", "invalid_confirmation"))
           ELSE RunTool(st1, t, [name |-> o.ret.tool_name, args |-> o.ret.tool_args],
                        TRUE, o.ret.token) :
           o \in ConsumeConfirmation(st.rows, k, m.session_id, now)}

\* handle_message from the rate check to the first await (planner.plan or
\* tool.run) or to its return, for message m.  The outcomes of the step.
\* A handler that marks the message in the dedupe store before it answers
\* the denial.
RateDeniedAfterMark(st, t, tr0) ==
  LET m == tr0.msg
      marked ==
        IF m.message_id = NoMsgId THEN st
        ELSE IF DedupeStoreOf(m.channel) = "db"
        THEN [st EXCEPT !.drows = DbMarkApply(st.drows, m.channel, m.message_id, now,
                                     [given |-> TRUE, val |-> DedupeTtl]).table]
        ELSE [st EXCEPT !.dmem = MemMarkApply(st.dmem, m.channel, m.message_id, now).store]
  IN [marked EXCEPT !.turns[t] = [tr0 EXCEPT
        !.pc = "done",
        !.reply = [Response("rate_limited", "rate_limited") EXCEPT
                     !.data = {"retry_after_sec", "scope"}]]]

\* if not res.allowed: return AgentResponse(intent="rate_limited", ...)
RateDenied(st, t, tr0) ==
  [st EXCEPT !.turns[t] = [tr0 EXCEPT
     !.pc = "done",
     !.reply = [Response("rate_limited", "rate_limited") EXCEPT
                  !.data = {"retry_after_sec", "scope"}]]]

Begun(st, t, m) ==
  LET key == <<m.channel, m.session_id>>
      rc == RateCheck(st.buckets[key], now)
      hasId == m.message_id # NoMsgId
      dk == IF ~hasId THEN [ret |-> TRUE, drows |-> st.drows, dmem |-> st.dmem]
            ELSE IF DedupeStoreOf(m.channel) = "db"
            THEN LET r == DbMarkApply(st.drows, m.channel, m.message_id, now,
                                      [given |-> TRUE, val |-> DedupeTtl])
                 IN [ret |-> r.ret, drows |-> r.table, dmem |-> st.dmem]
            ELSE LET r == MemMarkApply(st.dmem, m.channel, m.message_id, now)
                 IN [ret |-> r.ret, drows |-> st.drows, dmem |-> r.store]
      k == ExtractConfirmToken(m.text)
      tr0 == [IdleTurn EXCEPT !.msg = m, !.at = now]
      st0 == [st EXCEPT !.buckets[key] = rc.q]
  IN IF ~rc.allowed
       THEN {RateDenied(st0, t, tr0)}
     ELSE IF hasId /\ DedupeStoreOf(m.channel) = "db" /\ "dedupe_store" \in down
       THEN {Fail([st0 EXCEPT !.turns[t] = tr0], t, "OperationalError")}
     ELSE LET st1 == [st0 EXCEPT !.drows = dk.drows, !.dmem = dk.dmem] IN
          IF IsDuplicate(hasId, dk.ret)
            THEN {[st1 EXCEPT !.turns[t] = [tr0 EXCEPT
                     !.pc = "done", !.mark = "dup",
                     !.reply = Response("unknown", "duplicate")]]}
            ELSE Admitted(st1, t,
                   [tr0 EXCEPT !.mark = IF hasId THEN "first" ELSE "none",
                               !.live = /\ k # NoToken
                                        /\ NamesLive(st.rows, k, m.session_id, now)])

\* One handle_message call begins, for a message of M.
TurnBeginWith(t, M) ==
  /\ turns[t].pc = "idle"
  /\ \A u \in Turns : u < t => turns[u].pc # "idle"
  /\ Cardinality({u \in Turns : turns[u].pc \notin {"idle", "done"}}) < MaxInFlight
  /\ \E m \in M : \E st1 \in Begun(OrchNow, t, m) : Commit(st1)
  /\ UNCHANGED <<now, locked, pending, cons, mk, marks, clock, variant,
                 cfgVars, limVars, planVars, regVars>>

TurnBegin(t) == TurnBeginWith(t, Inbound)

\* planner.plan returns a plan of P (or raises one of the errors E after its
\* retries); PLAN event; guardrails; short circuits; the tool loop up to its
\* first await.
\* A handler that records only the plans its guardrails let through.
PlannedAuditsIfAccepted(st, t, plan, code) ==
  LET st0 == [st EXCEPT !.turns[t].plan = plan, !.turns[t].via = "loop"]
      wants == WantsRegisterCustomer(st.turns[t].msg.text)
      rejected == \/ wants /\ plan.tool_calls = <<>>
                  \/ /\ wants /\ plan.tool_calls # <<>>
                     /\ plan.tool_calls[1].name # "register_customer"
                     /\ RegistryGet("register_customer")
                  \/ WriteWithoutCall(plan)
  IN IF rejected THEN AfterPlan(st0, t, code)
     ELSE AfterPlan(Emit(st0, Event("PLAN", t, st.turns[t].msg, plan.intent, "", FALSE)),
                    t, code)

\* A handler that appends the PLAN event once the plan has been acted on.
PlannedAuditsLast(st, t, plan, code) ==
  LET st0 == [st EXCEPT !.turns[t].plan = plan, !.turns[t].via = "loop"]
  IN Emit(AfterPlan(st0, t, code), Event("PLAN", t, st.turns[t].msg, plan.intent, "", FALSE))

Planned(st, t, plan, code) ==
  LET st0 == [st EXCEPT !.turns[t].plan = plan, !.turns[t].via = "loop"]
      st1 == Emit(st0, Event("PLAN", t, st.turns[t].msg, plan.intent, "", FALSE))
  IN AfterPlan(st1, t, code)

PlanReturnWith(t, P, E) ==
  /\ turns[t].pc = "planning"
  /\ \/ \E err \in E : Commit(Fail(OrchNow, t, err))
     \/ \E plan \in P, code \in ShortCodeOutcomes(rows) :
          /\ LoopCreates([turns[t] EXCEPT !.plan = plan]) => FreeTokens(crt) # {}
          /\ Commit(Planned(OrchNow, t, plan, code))
  /\ UNCHANGED <<now, locked, pending, cons, mk, marks, clock, variant,
                 cfgVars, limVars, planVars, regVars>>

PlanReturn(t) == PlanReturnWith(t, Plans, {"LLMError"})

\* An executor that lets the tool's exception pass without an event.
ToolFailedUnlogged(st, t) == Fail(st, t, "ToolFailure")

\* tool.run returns or raises; TOOL or ERROR event; the loop goes on.
ToolFailed(st, t) ==
  LET tr == st.turns[t]
  IN Fail(Emit(st, [Event("ERROR", t, tr.msg, "", tr.cur, tr.confirmed)
                      EXCEPT !.error = "ToolFailure"]),
          t, "ToolFailure")

ToolRan(st, t, code) ==
  LET tr == st.turns[t]
      st0 == Emit([st EXCEPT !.turns[t].results = @ \cup {tr.cur},
                             !.turns[t].tool_results = SetResult(@, tr.cur, tr.idx)],
                  Event("TOOL", t, tr.msg, "", tr.cur, tr.confirmed))
  IN IF tr.via = "confirm"
       THEN Finalize(st0, t,
              [Response("write_action", "write_result") EXCEPT
                 !.data = {"tool_results"},
                 !.debug = Debug({"confirmed", "tool"})])
       ELSE LoopStep(st0, t, code)

ToolReturn(t) ==
  /\ turns[t].pc = "tool"
  /\ \/ Commit(ToolFailed(OrchNow, t))
     \/ \E code \in ShortCodeOutcomes(rows) :
          /\ turns[t].via # "confirm" /\ LoopCreates(turns[t]) => FreeTokens(crt) # {}
          /\ Commit(ToolRan(OrchNow, t, code))
  /\ UNCHANGED <<now, locked, pending, cons, mk, marks, clock, variant,
                 cfgVars, limVars, planVars, regVars>>

\* answerer.answer returns or raises; then _finalize.
Answered(st, t) ==
  Finalize(st, t, [Response(st.turns[t].plan.intent, "answer") EXCEPT
                     !.text = "answer", !.data = {"slots", "tool_results"},
                     !.debug = Debug({"plan", "tool_results"})])

AnswerReturn(t) ==
  /\ turns[t].pc = "answering"
  /\ \/ Commit(Fail(OrchNow, t, "LLMError"))
     \/ Commit(Answered(OrchNow, t))
  /\ UNCHANGED <<now, locked, pending, cons, mk, marks, clock, variant,
                 cfgVars, limVars, planVars, regVars>>

\* settings.py: ENV defaults to "dev", EXPOSE_DEBUG to True; every store is up
DefaultSettings == env = "dev" /\ expose_debug = TRUE /\ down = {}

----------------------------------------------------------------------------
(* LLMPlanner.plan over OllamaCloudClient.chat_json.  A content string is   *)
(* modelled by what the parser can tell about it: whether it is wrapped in  *)
(* a markdown fence, whether it carries surrounding whitespace, and the     *)
(* JSON value (or prose) it spells.  confidence is in tenths.               *)

\* Placeholders of the planner call before it holds anything.
NoText == [fence |-> FALSE, pad |-> FALSE, body |-> [type |-> "none"]]
NoObj == [type |-> "none"]
NoPlanRet == [kind |-> "none"]

\* PlannerIntent = Literal["identify", "faq", "read_data", "write_action", "unknown"]
PlannerIntent == {"identify", "faq", "read_data", "write_action", "unknown"}
\* missing: List[Literal["cliente_ref", "periodo"]]
MissingSlots == {"cliente_ref", "periodo"}

Obj(f) == [type |-> "object", fields |-> f]

\* The JSON values (and non-JSON texts) the planning service may answer with.
FaqBody == Obj([intent |-> "faq", confidence |-> 9, final |-> "text"])
WriteBody == Obj([intent |-> "write_action", confidence |-> 5,
                  tool_calls |-> <<[name |-> "create_ticket"]>>, note |-> "x"])
BadIntentBody == Obj([intent |-> "greeting", confidence |-> 9])
NoConfidenceBody == Obj([intent |-> "faq", final |-> "text"])
BadConfidenceBody == Obj([intent |-> "faq", confidence |-> 20])
BadMissingBody == Obj([intent |-> "read_data", confidence |-> 5, missing |-> <<"email">>])
MissingBody == Obj([intent |-> "read_data", confidence |-> 4,
                    missing |-> <<"cliente_ref">>, tool_calls |-> <<>>])
NamelessCallBody == Obj([intent |-> "faq", confidence |-> 5,
                         tool_calls |-> <<[args |-> NoArgs]>>])
ArrayBody == [type |-> "array"]
ProseBody == [type |-> "prose"]
EmptyBody == [type |-> "empty"]

Contents ==
  {[fence |-> FALSE, pad |-> FALSE, body |-> b] :
      b \in {FaqBody, WriteBody, BadIntentBody, NoConfidenceBody, BadConfidenceBody,
              BadMissingBody, MissingBody, NamelessCallBody, ArrayBody, ProseBody}}
  \cup {[fence |-> TRUE, pad |-> FALSE, body |-> FaqBody],
        [fence |-> FALSE, pad |-> TRUE, body |-> FaqBody],
        [fence |-> FALSE, pad |-> TRUE, body |-> EmptyBody]}

\* _chat: not isinstance(content, str) or not content.strip()
ContentUsable(c) == c.body.type # "empty"

\* parse_json_strict: json.loads(text.strip()) raises on anything but JSON
ParseOk(text) == ~text.fence /\ text.body.type \in {"object", "array"}
ParseJsonStrict(text) == Strip(text).body

\* A validation that checks the fields are there but not what they hold.
ValidatesShapeOnly(o) ==
  /\ o.type = "object"
  /\ {"intent", "confidence"} \subseteq DOMAIN o.fields
\* A validation whose confidence has no upper bound (ge=0.0 alone).
ValidatesNoUpperBound(o) ==
  /\ o.type = "object"
  /\ "intent" \in DOMAIN o.fields /\ o.fields.intent \in PlannerIntent
  /\ "confidence" \in DOMAIN o.fields /\ 0 <= o.fields.confidence
  /\ "missing" \in DOMAIN o.fields =>
       \A i \in DOMAIN o.fields.missing : o.fields.missing[i] \in MissingSlots
  /\ "tool_calls" \in DOMAIN o.fields =>
       \A i \in DOMAIN o.fields.tool_calls : "name" \in DOMAIN o.fields.tool_calls[i]
\* validate_planner_output: PlannerOutput.model_validate(obj) raised no
\* ValidationError
Validates(o) ==
  /\ o.type = "object"
  /\ "intent" \in DOMAIN o.fields /\ o.fields.intent \in PlannerIntent
  /\ "confidence" \in DOMAIN o.fields
  /\ 0 <= o.fields.confidence /\ o.fields.confidence <= 10
  /\ "missing" \in DOMAIN o.fields =>
       \A i \in DOMAIN o.fields.missing : o.fields.missing[i] \in MissingSlots
  /\ "tool_calls" \in DOMAIN o.fields =>
       \A i \in DOMAIN o.fields.tool_calls : "name" \in DOMAIN o.fields.tool_calls[i]

\* ToolCall: args and requires_confirmation take their defaults
DumpCall(c) ==
  [name |-> c.name,
   args |-> IF "args" \in DOMAIN c THEN c.args ELSE NoArgs,
   requires_confirmation |->
     IF "requires_confirmation" \in DOMAIN c THEN c.requires_confirmation ELSE FALSE]

\* model.model_dump(): the declared fields with their defaults filled in,
\* unknown keys dropped (extra="ignore"); final None is ""
ModelDump(f) ==
  [intent |-> f.intent,
   missing |-> IF "missing" \in DOMAIN f THEN f.missing ELSE <<>>,
   tool_calls |-> IF "tool_calls" \in DOMAIN f
                    THEN [i \in DOMAIN f.tool_calls |-> DumpCall(f.tool_calls[i])]
                    ELSE <<>>,
   final |-> IF "final" \in DOMAIN f THEN f.final ELSE "",
   confidence |-> f.confidence]

Raised(e) == [kind |-> "raised", error |-> e]
Returned(v) == [kind |-> "returned", value |-> v]

\* plan(): raw_text = await self.client.chat_json(...)
PlanCall ==
  /\ pstep = "idle"
  /\ pstep' = "plan" /\ pcalls' = 1 /\ pattempt' = 0
  /\ UNCHANGED <<pposts, ptext, pobj, pret, pfails, now, confVars, dedupeVars, variant,
                 orchVars, cfgVars, limVars, regVars>>

\* A loop that runs one attempt more than it should (range(retries + 2)).
PostFailsOneMore ==
  /\ pstep \in {"plan", "repair_parse", "repair_valid"}
  /\ pposts' = pposts + 1
  /\ IF pattempt <= OllamaRetries
       THEN pattempt' = pattempt + 1 /\ UNCHANGED <<pstep, pret>>
       ELSE pstep' = "done" /\ pret' = Raised("LLMError") /\ UNCHANGED pattempt
  /\ UNCHANGED <<pcalls, ptext, pobj, pfails, now, confVars, dedupeVars, variant,
                 orchVars, cfgVars, limVars, regVars>>

\* _chat: a POST that times out, fails, answers >= 400 or carries no usable
\* content; retried until the attempts run out, then LLMError
PostFails ==
  /\ pstep \in {"plan", "repair_parse", "repair_valid"}
  /\ pposts' = pposts + 1
  /\ IF pattempt < OllamaRetries
       THEN pattempt' = pattempt + 1 /\ UNCHANGED <<pstep, pret>>
       ELSE pstep' = "done" /\ pret' = Raised("LLMError") /\ UNCHANGED pattempt
  /\ UNCHANGED <<pcalls, ptext, pobj, pfails, now, confVars, dedupeVars, variant,
                 orchVars, cfgVars, limVars, regVars>>

\* What plan does with the text a chat_json call returned, up to its next
\* chat_json call or its end: [step, calls, obj, ret, fails]
AfterChat(step, text, calls, fails) ==
  IF ~ParseOk(text)
    THEN IF step = "plan"
           THEN [step |-> "repair_parse", calls |-> calls + 1, obj |-> NoObj,
                 ret |-> NoPlanRet, fails |-> [fails EXCEPT !.parse = @ + 1]]
           ELSE [step |-> "done", calls |-> calls, obj |-> NoObj,
                 ret |-> Raised("JSONDecodeError"),
                 fails |-> [fails EXCEPT !.parse = @ + 1]]
    ELSE LET o == ParseJsonStrict(text) IN
         IF Validates(o)
           THEN [step |-> "done", calls |-> calls, obj |-> o,
                 ret |-> Returned(ModelDump(o.fields)), fails |-> fails]
         ELSE IF step = "repair_valid"
           THEN [step |-> "done", calls |-> calls, obj |-> o,
                 ret |-> Raised("LLMError"), fails |-> [fails EXCEPT !.valid = @ + 1]]
         ELSE [step |-> "repair_valid", calls |-> calls + 1, obj |-> o,
               ret |-> NoPlanRet, fails |-> [fails EXCEPT !.valid = @ + 1]]

\* _chat: a POST answered with usable content, returned stripped; then plan
\* parses, validates and repairs
PostAnswers ==
  /\ pstep \in {"plan", "repair_parse", "repair_valid"}
  /\ \E c \in {x \in Contents : ContentUsable(x)} :
       LET text == Strip(c)
           a == AfterChat(pstep, text, pcalls, pfails)
       IN /\ pposts' = pposts + 1
          /\ ptext' = text
          /\ pstep' = a.step /\ pcalls' = a.calls /\ pobj' = a.obj
          /\ pret' = a.ret /\ pfails' = a.fails
          /\ pattempt' = 0
  /\ UNCHANGED <<now, confVars, dedupeVars, variant, orchVars, cfgVars, limVars, regVars>>

----------------------------------------------------------------------------
(* ToolRegistry.  A tool is known by its name and by the module that        *)
(* defines it (two modules define a register_customer tool).                *)

Tool(name, mod) == [name |-> name, module |-> mod]
NoTool == Tool("", "")                \* get returned None
NoTools == [n \in {} |-> NoTool]      \* self._tools = {}

\* tools_mock.register(), customer_registration_tools.register(),
\* old_customer_tools.register(): the lists they return (scaled)
MockTools == <<Tool("get_help", "tools_mock"), Tool("create_ticket", "tools_mock")>>
CustomerTools == <<Tool("register_customer", "customer_registration_tools")>>
OldCustomerTools == <<Tool("register_customer", "old_customer_tools"),
                      Tool("verify_email_code", "old_customer_tools")>>

\* tools_provider.provide_tools(): the lists of the plugin modules, extended
ProvideTools == MockTools \o CustomerTools

\* What settings.TOOLS_PROVIDER may name: the default provider, the mock
\* tools alone (tests).
ConfiguredProviders == {ProvideTools, MockTools}

\* What register_many may be handed: a list of tools (also one naming a tool
\* twice), or a dict from name to tool.
AsList(l) == [dict |-> FALSE, list |-> l, map |-> NoTools]
AsDict(d) == [dict |-> TRUE, list |-> <<>>, map |-> d]
Provided ==
  {AsList(ProvideTools), AsList(MockTools), AsList(OldCustomerTools),
   AsList(CustomerTools \o OldCustomerTools), AsList(<<>>),
   AsDict([n \in {"register_customer"} |-> Tool(n, "old_customer_tools")]),
   AsDict([n \in {"get_help", "get_report"} |-> Tool(n, "tools_mock")])}

\* The order the keys of a dict are visited in.
KeyOrder == <<"get_help", "get_report", "create_ticket", "register_customer",
              "verify_email_code">>

\* items = tools.items() if isinstance(tools, dict)
\*         else [(t.name, t) for t in tools]
Items(p) ==
  IF p.dict
    THEN LET keys == SelectSeq(KeyOrder, LAMBDA k : k \in DOMAIN p.map)
         IN [i \in DOMAIN keys |-> <<keys[i], p.map[keys[i]]>>]
    ELSE [i \in DOMAIN p.list |-> <<p.list[i].name, p.list[i]>>]

\* A registration that keeps the tool a name already has (dict.setdefault).
PutKeepsFirst(d, name, tool) == IF name \in DOMAIN d THEN d ELSE (name :> tool) @@ d
\* self._tools[name] = tool
Put(d, name, tool) == (name :> tool) @@ d

RECURSIVE PutAll(_, _)
\* for name, tool in items: self._tools[name] = tool
PutAll(d, items) ==
  IF items = <<>> THEN d
  ELSE PutAll(Put(d, items[1][1], items[1][2]), Tail(items))

\* self._tools.get(name)
Get(d, name) == IF name \in DOMAIN d THEN d[name] ELSE NoTool
\* list(self._tools.values())
List(d) == {d[n] : n \in DOMAIN d}

\* The names a caller may ask for: the registered ones and one no plugin has.
AskedNames == {"get_help", "get_report", "create_ticket", "register_customer",
               "verify_email_code", "drop_tables"}

\* ToolRegistry.from_settings: reg = cls(); reg.register_many(provider_fn())
FromSettings ==
  /\ rlog = <<>> /\ rtools = NoTools /\ rgets = <<>>
  /\ \E l \in ConfiguredProviders :
       /\ rtools' = PutAll(NoTools, Items(AsList(l)))
       /\ rlog' = Items(AsList(l))
  /\ UNCHANGED <<rgets, now, confVars, dedupeVars, variant, orchVars, cfgVars,
                 limVars, planVars>>

\* reg.register_many(tools) on the registry built
RegisterMany ==
  /\ rlog # <<>>
  /\ \E p \in Provided :
       /\ Len(rlog) + Len(Items(p)) <= MaxLog
       /\ rtools' = PutAll(rtools, Items(p))
       /\ rlog' = rlog \o Items(p)
  /\ UNCHANGED <<rgets, now, confVars, dedupeVars, variant, orchVars, cfgVars,
                 limVars, planVars>>

\* reg.get(name)
RegistryGetCall ==
  /\ Len(rgets) < MaxGets
  /\ \E name \in AskedNames :
       rgets' = Append(rgets, [name |-> name, ret |-> Get(rtools, name),
                               after |-> Len(rlog)])
  /\ UNCHANGED <<rtools, rlog, now, confVars, dedupeVars, variant, orchVars, cfgVars,
                 limVars, planVars>>

----------------------------------------------------------------------------
(* The confirmation stores under concurrent callers *)

\* Everything but the limiter buckets and the in-memory dedupe store.
InitRest ==
  /\ now = 0
  /\ rows = {} /\ locked = {} /\ pending = {}
  /\ crt = [i \in Tokens |-> IdleCreate]
  /\ cons = [j \in 1..MaxConsumers |-> IdleConsume]
  /\ drows = {}
  /\ mk = [p \in 1..MaxMarkers |-> IdleMark]
  /\ marks = <<>> /\ clock = 0
  /\ turns = [t \in 1..MaxTurns |-> IdleTurn]
  /\ events = [c \in Channels |-> <<>>]
  /\ sess = [s \in Sessions |-> NoSession]
  /\ execs = {}
  /\ audit = [c \in Channels |-> <<>>]
  /\ lnow = 0
  /\ lbuckets = [k \in LimKeys |-> <<>>]
  /\ lcalls = <<>>
  /\ pstep = "idle" /\ pcalls = 0 /\ pposts = 0 /\ pattempt = 0
  /\ ptext = NoText /\ pobj = NoObj /\ pret = NoPlanRet
  /\ pfails = [parse |-> 0, valid |-> 0]
  /\ rtools = NoTools /\ rlog = <<>> /\ rgets = <<>>

NoTraffic == [k \in Channels \X Sessions |-> <<>>]

InitStores ==
  /\ InitRest
  /\ dmem = {}
  /\ buckets = NoTraffic

NextConf ==
  \/ \E i \in Tokens : DbCreatePick(i)
  \/ \E i \in Tokens : DbCreateInsert(i)
  \/ \E i \in Tokens : MemCreate(i)
  \/ \E j \in 1..MaxConsumers : DbConsumeSelect(j)
  \/ \E j \in 1..MaxConsumers : DbConsumeFinish(j)
  \/ \E j \in 1..MaxConsumers : MemConsume(j)
  \/ DbCleanupExpired
  \/ MemCleanup
  \/ Tick

InitConf == InitStores /\ variant \in Stores /\ DefaultSettings

SpecConf == InitConf /\ [][NextConf]_vars

(* The dedupe stores under concurrent callers *)

NextDedupe ==
  \/ \E p \in 1..MaxMarkers : DbMarkBegin(p)
  \/ \E p \in 1..MaxMarkers : DbMarkInsert(p)
  \/ \E p \in 1..MaxMarkers : MemMark(p)
  \/ DbDedupeCleanup
  \/ MemDedupeCleanup
  \/ Tick

InitDedupe == InitStores /\ variant = "db" /\ DefaultSettings

SpecDedupe == InitDedupe /\ [][NextDedupe]_vars

(* The orchestrator serving concurrent turns *)

NextOrch ==
  \/ \E t \in Turns : TurnBegin(t)
  \/ \E t \in Turns : PlanReturn(t)
  \/ \E t \in Turns : ToolReturn(t)
  \/ \E t \in Turns : AnswerReturn(t)
  \/ DbDedupeCleanup
  \/ MemDedupeCleanup
  \/ Tick

InitOrch == InitStores /\ variant = "db" /\ DefaultSettings

SpecOrch == InitOrch /\ [][NextOrch]_vars

(* One turn over a wide range of messages and plans, with any debug      *)
(* settings, with stores that go down and come back, and starting either *)
(* fresh or right after earlier traffic: session s1 of the web channel   *)
(* has used up its window, message m1 of whatsapp has been seen.         *)

Outages == {{}, {"session_store"}, {"dedupe_store"}, {"confirmation_store"}}

\* A store becomes unreachable or comes back: the outage changes to one of D.
OutageOf(D) ==
  /\ \E d \in D : d # down /\ down' = d
  /\ UNCHANGED <<env, expose_debug, now, confVars, dedupeVars, variant, orchVars,
                 limVars, planVars, regVars>>

Outage == OutageOf(Outages)

NextTurn ==
  \/ \E t \in 1..WideTurns : TurnBeginWith(t, InboundWide)
  \/ \E t \in 1..WideTurns : PlanReturnWith(t, PlansWide, PlanErrors)
  \/ \E t \in 1..WideTurns : ToolReturn(t)
  \/ \E t \in 1..WideTurns : AnswerReturn(t)
  \/ Outage

InitTurn ==
  /\ InitRest
  /\ variant = "db"
  /\ env \in {"dev", "prod"} /\ expose_debug \in BOOLEAN /\ down = {}
  /\ buckets \in {NoTraffic,
                   [NoTraffic EXCEPT ![<<"web", "s1">>] = [i \in 1..RateMax |-> 0]]}
  /\ dmem \in {{}, {[key |-> MemKey("whatsapp", "m1"), ts |-> 0]}}

SpecTurn == InitTurn /\ [][NextTurn]_vars

\* Every external call of a turn (planner, tool, answerer) returns or fails.
SpecTurnLive ==
  /\ SpecTurn
  /\ \A t \in 1..WideTurns :
       /\ WF_vars(PlanReturnWith(t, PlansWide, PlanErrors))
       /\ WF_vars(ToolReturn(t))
       /\ WF_vars(AnswerReturn(t))

(* A sequence of turns while the INSERTs of the audit writer fail and      *)
(* recover: for the OUT events alone, for every event, or together with the *)
(* session store (the database is unreachable).                             *)

AllAuditDown == {AuditOutage[x] : x \in EventTypes}
AuditOutages ==
  {{}, {AuditOutage["OUT"]}, AllAuditDown, AllAuditDown \cup {"session_store"}}

NextAudit ==
  \/ \E t \in 1..AuditTurns :
       /\ \A u \in Turns : turns[u].pc \in {"idle", "done"}
       /\ TurnBeginWith(t, Inbound)
  \/ \E t \in 1..AuditTurns : PlanReturnWith(t, Plans, {"LLMError"})
  \/ \E t \in 1..AuditTurns : ToolReturn(t)
  \/ \E t \in 1..AuditTurns : AnswerReturn(t)
  \/ OutageOf(AuditOutages)

InitAudit == InitStores /\ variant = "db" /\ DefaultSettings

SpecAudit == InitAudit /\ [][NextAudit]_vars

(* Turns of sessions that may have used up their window: messages with  *)
(* ids arrive while the limiter refuses, and again once it admits.       *)

InboundIds ==
  {[channel |-> "provider_webhook", session_id |-> "s1", message_id |-> "m1", text |-> PlainText],
   [channel |-> "whatsapp", session_id |-> "s1", message_id |-> "m1", text |-> RegisterText],
   [channel |-> "whatsapp", session_id |-> "s1", message_id |-> "m2", text |-> PlainText]}

UsedUp == [i \in 1..RateMax |-> 0]

NextDenied ==
  \/ \E t \in Turns : TurnBeginWith(t, InboundIds)
  \/ \E t \in Turns : PlanReturn(t)
  \/ \E t \in Turns : ToolReturn(t)
  \/ \E t \in Turns : AnswerReturn(t)
  \/ Tick

InitDenied ==
  /\ InitRest /\ variant = "db" /\ DefaultSettings
  /\ dmem = {}
  /\ buckets \in {NoTraffic,
                   [NoTraffic EXCEPT ![<<"provider_webhook", "s1">>] = UsedUp],
                   [NoTraffic EXCEPT ![<<"whatsapp", "s1">>] = UsedUp]}

SpecDenied == InitDenied /\ [][NextDenied]_vars

(* The tool loop over plans of up to MaxCalls tool calls, read and write, *)
(* registered or not, while the confirmation store may be unreachable.   *)

ToolCalls == {ReportCall, TicketCall, RegisterCall, UnknownCall}

RECURSIVE CallSeqs(_)
CallSeqs(n) ==
  IF n = 0 THEN {<<>>}
  ELSE CallSeqs(n - 1) \cup {Append(q, c) : q \in CallSeqs(n - 1), c \in ToolCalls}

PlansLoop ==
  {[intent |-> "read_data", tool_calls |-> q, missing |-> <<>>, final |-> ""] :
     q \in CallSeqs(MaxCalls) \ {<<>>}}

InboundLoop ==
  {[channel |-> "web", session_id |-> "s1", message_id |-> NoMsgId, text |-> PlainText],
   [channel |-> "web", session_id |-> "s1", message_id |-> NoMsgId, text |-> ConfirmText(1)]}

LoopOutages == {{}, {"confirmation_store"}}

NextLoop ==
  \/ \E t \in 1..LoopTurns : TurnBeginWith(t, InboundLoop)
  \/ \E t \in 1..LoopTurns : PlanReturnWith(t, PlansLoop, {"LLMError"})
  \/ \E t \in 1..LoopTurns : ToolReturn(t)
  \/ \E t \in 1..LoopTurns : AnswerReturn(t)
  \/ OutageOf(LoopOutages)

SpecLoop == InitAudit /\ [][NextLoop]_vars

(* The tool executor under calls whose arguments its input models turn   *)
(* down, next to calls that run, fail, or name no registered tool.        *)

ExecCalls == {ReportCall, BadArgsCall, TicketCall, UnknownCall}

PlansExec ==
  {[intent |-> "read_data", tool_calls |-> q, missing |-> <<>>, final |-> ""] :
     q \in {<<c>> : c \in ExecCalls} \cup {<<c, d>> : c, d \in ExecCalls}
             \cup {<<ReportCall, c, d>> : c \in {ReportCall, BadArgsCall, UnknownCall},
                                          d \in {ReportCall, TicketCall}}}

NextExec ==
  \/ \E t \in 1..LoopTurns : TurnBeginWith(t, InboundLoop)
  \/ \E t \in 1..LoopTurns : PlanReturnWith(t, PlansExec, {"LLMError"})
  \/ \E t \in 1..LoopTurns : ToolReturn(t)
  \/ \E t \in 1..LoopTurns : AnswerReturn(t)
  \/ Tick

SpecExec == InitAudit /\ [][NextExec]_vars

(* Turns of two sessions over a time longer than the session TTL: some   *)
(* finish, some are rate limited, some are duplicates, some fail.        *)

InboundSess ==
  {[channel |-> "web", session_id |-> "s1", message_id |-> NoMsgId, text |-> PlainText],
   [channel |-> "whatsapp", session_id |-> "s1", message_id |-> "m1", text |-> PlainText],
   [channel |-> "web", session_id |-> "s2", message_id |-> NoMsgId, text |-> RegisterText]}

PlansSess ==
  {[intent |-> "faq", tool_calls |-> <<>>, missing |-> <<>>, final |-> "text"],
   [intent |-> "read_data", tool_calls |-> <<ReportCall>>, missing |-> <<>>, final |-> ""]}

NextSess ==
  \/ \E t \in Turns : TurnBeginWith(t, InboundSess)
  \/ \E t \in Turns : PlanReturnWith(t, PlansSess, {"LLMError"})
  \/ \E t \in Turns : ToolReturn(t)
  \/ \E t \in Turns : AnswerReturn(t)
  \/ TickTo(SessionTime)

SpecSess == InitAudit /\ [][NextSess]_vars

(* Plans that call one read tool several times *)

ReadCalls == {ReportCall, ReportAgain, HelpCall}

PlansSame ==
  {[intent |-> "read_data", tool_calls |-> q, missing |-> <<>>, final |-> ""] :
     q \in {<<c, d>> : c \in {ReportCall, HelpCall}, d \in {ReportCall, ReportAgain}}
           \cup {<<ReportCall, ReportAgain, d>> : d \in ReadCalls}}

NextSame ==
  \/ \E t \in 1..LoopTurns : TurnBeginWith(t, InboundLoop)
  \/ \E t \in 1..LoopTurns : PlanReturnWith(t, PlansSame, {"LLMError"})
  \/ \E t \in 1..LoopTurns : ToolReturn(t)
  \/ \E t \in 1..LoopTurns : AnswerReturn(t)
  \/ Tick

SpecSame == InitAudit /\ [][NextSame]_vars

(* create under every ttl argument *)

NextTtl ==
  \/ \E i \in Tokens : DbCreatePickWith(i, TtlRequests)
  \/ \E i \in Tokens : DbCreateInsert(i)
  \/ \E i \in Tokens : MemCreateWith(i, TtlRequests)
  \/ DbCleanupExpired
  \/ MemCleanup
  \/ Tick

SpecTtl == InitConf /\ [][NextTtl]_vars

(* The tool registry on its own *)

NextRegistry ==
  \/ FromSettings
  \/ RegisterMany
  \/ RegistryGetCall

InitRegistry == InitStores /\ variant = "db" /\ DefaultSettings

SpecRegistry == InitRegistry /\ [][NextRegistry]_vars

(* The rate limiter on its own *)

NextLimiter ==
  \/ \E key \in LimKeys : LimCheck(key)
  \/ LimTick

InitLimiter == InitStores /\ variant = "db" /\ DefaultSettings

SpecLimiter == InitLimiter /\ [][NextLimiter]_vars

(* One planner.plan call against a service that answers anything *)

NextPlanner ==
  \/ PlanCall
  \/ PostFails
  \/ PostAnswers

InitPlanner == InitStores /\ variant = "db" /\ DefaultSettings

SpecPlanner == InitPlanner /\ [][NextPlanner]_vars

\* Every POST ends: httpx.AsyncClient(timeout=self.timeout_sec) answers or
\* raises within the timeout, and the sleeps between attempts are finite.
SpecPlannerLive == SpecPlanner /\ WF_vars(PostFails) /\ WF_vars(PostAnswers)

----------------------------------------------------------------------------
(* Properties of the confirmation stores (SpecConf) *)

Consumers == 1..MaxConsumers

\* The finished consume calls that returned the payload of token i.
Winners(i) ==
  {j \in Consumers : cons[j].pc = "done" /\ cons[j].ret.ok /\ cons[j].ret.token = i}

\* The finished consume calls that named token i with the owning session,
\* were made after create returned it, and ran while it was unexpired.
TimelyOwnerCalls(i) ==
  {j \in Consumers : /\ cons[j].pc = "done" /\ i \in cons[j].born
                     /\ cons[j].v = i /\ cons[j].sid = crt[i].session_id
                     /\ cons[j].at <= crt[i].expires_at}

\* C1: of the consume calls naming a pending, unexpired token with the owning
\* session, in any interleaving, exactly one returns the captured tool name
\* and arguments and every other returns none.
C1_ExactlyOneConsume ==
  \A i \in Created :
    /\ Cardinality(Winners(i)) <= 1
    /\ TimelyOwnerCalls(i) # {} => Cardinality(Winners(i)) = 1
    /\ \A j \in Winners(i) : /\ cons[j].ret.session_id = crt[i].session_id
                             /\ cons[j].ret.tool_name = crt[i].tool_name
                             /\ cons[j].ret.tool_args = crt[i].tool_args

\* Two consume calls of the owner named the same unexpired token of the
\* MySQL store: one got the payload, the other none.
C1_Witness ==
  \E i \in Created : \E j, k \in TimelyOwnerCalls(i) :
    /\ j # k /\ cons[j].ret.ok /\ ~cons[k].ret.ok
    /\ crt[i].store = "db"

\* C5: the status of a row only ever changes pending -> consumed or
\* pending -> expired; a consumed or expired row keeps its status.
C5_StatusOnlyLeavesPending ==
  [][\A r \in rows : \A r2 \in rows' :
       r2.token = r.token =>
         \/ r2.status = r.status
         \/ r.status = "pending" /\ r2.status \in {"consumed", "expired"}]_vars

\* One row was consumed and another was expired.
C5_Witness ==
  \E r1, r2 \in rows : r1.status = "consumed" /\ r2.status = "expired"

\* Whether token i is still held as pending by its store.
StillPending(i) ==
  IF crt[i].store = "db"
    THEN \E r \in rows : r.token = i /\ r.status = "pending"
    ELSE \E it \in pending : it.token = i

\* The finished consume calls that named token i after its expires-at.
LateCalls(i) ==
  {j \in Consumers : /\ cons[j].pc = "done" /\ i \in cons[j].born
                     /\ (cons[j].v = i \/ cons[j].tok = i)
                     /\ cons[j].at > crt[i].expires_at}

\* C6 as stated: a consume past the token's expires-at returns none and
\* leaves the record not pending, whoever calls.
C6_LateConsumeAlwaysExpires ==
  \A i \in Created : \A j \in LateCalls(i) :
    ~cons[j].ret.ok /\ ~StillPending(i)

\* C6 amended: a consume past the token's expires-at returns none; when the
\* caller's session id is the owning one the record is no longer pending
\* afterwards (expired in MySQL, removed in memory).
C6_LateConsumeReturnsNone ==
  \A i \in Created : \A j \in LateCalls(i) :
    /\ ~cons[j].ret.ok
    /\ cons[j].sid = crt[i].session_id => ~StillPending(i)

\* The owner presented an expired pending token: none came back and the row
\* is now expired.
C6_Witness ==
  \E i \in Created : \E j \in LateCalls(i) :
    /\ cons[j].sid = crt[i].session_id /\ cons[j].row.status = "pending"
    /\ \E r \in rows : r.token = i /\ r.status = "expired"

----------------------------------------------------------------------------
(* Properties of the dedupe stores (SpecDedupe) *)

SamePair(a, b) ==
  a.store = b.store /\ a.provider = b.provider /\ a.message_id = b.message_id

EarlierMarks(n) == {k \in 1..(n - 1) : SamePair(marks[k], marks[n])}

\* C7: the first mark of a pair returns true, and a later mark of the pair
\* made no later than the expires-at of a record it created returns false.
C7_FirstTrueThenFalse ==
  \A n \in DOMAIN marks :
    /\ EarlierMarks(n) = {} => marks[n].ret
    /\ (\E k \in EarlierMarks(n) : marks[k].ret /\ marks[n].at <= marks[k].exp)
         => ~marks[n].ret

\* A pair was marked (true) and marked again at the very end of its TTL
\* (false).
C7_Witness ==
  \E n \in DOMAIN marks : \E k \in EarlierMarks(n) :
    /\ marks[k].ret /\ ~marks[n].ret /\ marks[n].at = marks[k].exp

\* C8: a mark made after every record of its pair has expired returns true
\* again, whether or not a cleanup ran in between.
C8_TrueAgainAfterExpiry ==
  \A n \in DOMAIN marks :
    LET before == {k \in EarlierMarks(n) : marks[k].ret} IN
    (before # {} /\ \A k \in before : marks[k].exp < marks[n].at) => marks[n].ret

Markers == 1..MaxMarkers

MarkersOf(pr, m) ==
  {p \in Markers : mk[p].pc # "idle" /\ mk[p].provider = pr /\ mk[p].message_id = m}

\* A set of finished mark calls of one pair that all overlapped in time, began
\* with no unexpired record of the pair, took effect within one TTL, and
\* overlapped no other mark call of the pair.
ConcurrentGroup(S, pr, m) ==
  /\ Cardinality(S) >= 2
  /\ \A p \in S : mk[p].pc = "done" /\ ~mk[p].live0
  /\ \A p, q \in S : mk[p].b < mk[q].e /\ mk[q].at <= mk[p].t0 + DedupeTtl
  /\ \A q \in MarkersOf(pr, m) \ S :
       \/ mk[q].pc = "done" /\ \A p \in S : mk[q].e < mk[p].b
       \/ \A p \in S : mk[p].e < mk[q].b

\* C9: of two or more concurrent mark calls of a pair that has no unexpired
\* record, exactly one returns true.
C9_ExactlyOneConcurrent ==
  \A pr \in Providers, m \in MsgIds :
    \A S \in SUBSET MarkersOf(pr, m) :
      ConcurrentGroup(S, pr, m) => Cardinality({p \in S : mk[p].ret}) = 1

----------------------------------------------------------------------------
(* Properties of the orchestrator (SpecOrch) *)

\* The audit events of request t, in the order its channel's bus holds them.
EventsOf(t) ==
  IF turns[t].pc = "idle" THEN <<>>
  ELSE SelectSeq(events[turns[t].msg.channel], LAMBDA e : e.request_id = t)

AllEvents == UNION {{events[c][n] : n \in DOMAIN events[c]} : c \in Channels}

HasWriteScope(name) == name \in DOMAIN ToolScopes /\ "write" \in ToolScopes[name]

\* C2: a tool whose scopes include "write" is never invoked with
\* confirmed = false: the tool loop stops at a write tool without running it,
\* and a write tool only runs on the confirm path, for a consumed confirmation.
C2_WriteNeedsConfirmation ==
  /\ \A e \in execs :
       HasWriteScope(e.tool_name) =>
         /\ e.confirmed
         /\ turns[e.request_id].via = "confirm"
         /\ \E r \in rows : r.token = e.token /\ r.status = "consumed"
  /\ \A e \in AllEvents :
       e.type = "TOOL" /\ HasWriteScope(e.tool_name) => e.confirmed
  /\ \A t \in Turns :
       turns[t].reply.kind = "needs_confirmation" =>
         ~\E e \in execs : e.request_id = t /\ HasWriteScope(e.tool_name)

\* A turn ran a read tool unconfirmed, reached a write tool next in its plan
\* and ended asking for confirmation.
C2_Witness ==
  \E t \in Turns :
    /\ turns[t].pc = "done" /\ turns[t].reply.kind = "needs_confirmation"
    /\ turns[t].idx = 1 /\ HasWriteScope(turns[t].plan.tool_calls[2].name)
    /\ \E e \in execs : e.request_id = t /\ ~e.confirmed

ExecsOfToken(i) == {e \in execs : e.token = i}

RepeatsConfirm(t, u) ==
  /\ t < u /\ turns[t].pc = "done" /\ turns[t].live
  /\ turns[u].pc = "done" /\ turns[u].via = "confirm"
  /\ turns[u].msg.session_id = turns[t].msg.session_id
  /\ turns[u].msg.text = turns[t].msg.text

\* C4: the reply to a plan whose first tool call is a write tool carries the
\* token; "confirm <token>" sent next in the same session runs the captured
\* tool and gets the tool's success reply; the same confirm command sent
\* again gets the invalid-or-expired reply and runs nothing.
C4_ConfirmRunsCapturedTool ==
  \A t \in Turns :
    /\ turns[t].reply.kind = "needs_confirmation" =>
         turns[t].reply.confirm.token = turns[t].conf
    /\ turns[t].pc = "done" /\ turns[t].live =>
         /\ turns[t].reply.kind = "write_result"
         /\ \E e \in execs :
              /\ e.request_id = t /\ e.confirmed
              /\ e.token = ExtractConfirmToken(turns[t].msg.text)
    /\ \A u \in Turns :
         RepeatsConfirm(t, u) =>
           /\ turns[u].reply.kind = "invalid_confirmation"
           /\ ~\E e \in execs : e.request_id = u

\* Turn u came after turn t with the same channel and message id, within the
\* dedupe TTL of t.
Resubmits(t, u) ==
  /\ t < u /\ turns[u].pc # "idle"
  /\ turns[u].msg.message_id # NoMsgId
  /\ turns[u].msg.channel = turns[t].msg.channel
  /\ turns[u].msg.message_id = turns[t].msg.message_id
  /\ turns[u].at <= turns[t].at + DedupeTtl

\* The turn ended as a duplicate having done nothing else.
SuppressedAsDuplicate(u) ==
  /\ turns[u].pc = "done" /\ turns[u].reply.kind = "duplicate"
  /\ ~turns[u].planned /\ ~turns[u].finalized
  /\ turns[u].conf = NoToken /\ turns[u].via = ""
  /\ ~\E e \in execs : e.request_id = u
  /\ EventsOf(u) = <<>>

\* C10 as stated: every second submission of a (channel, message id) within
\* the TTL is answered as a duplicate and does nothing else.
C10_SecondSubmissionIsDuplicate ==
  \A t, u \in Turns : Resubmits(t, u) => SuppressedAsDuplicate(u)

\* C10 amended: a second submission within the TTL of a first one that was
\* admitted (marked first-seen), itself not denied by the rate limiter, is
\* answered as a duplicate: no planner call, no tool, no confirmation created
\* or consumed, no session write, no audit event.
C10_AdmittedResubmissionIsDuplicate ==
  \A t, u \in Turns :
    /\ Resubmits(t, u) /\ turns[t].mark = "first"
    /\ turns[u].reply.kind # "rate_limited"
    => SuppressedAsDuplicate(u)

\* A message was planned and answered, then submitted again and suppressed.
C10_Witness ==
  \E t, u \in Turns :
    /\ Resubmits(t, u) /\ turns[t].mark = "first" /\ turns[t].planned
    /\ turns[t].pc = "done" /\ SuppressedAsDuplicate(u)

----------------------------------------------------------------------------
(* Properties of one turn (SpecTurn, SpecTurnLive) *)

\* The text, as typed, holds a customer-registration phrase in any case.
ContainsPhrase(text) == text.head \in RegisterPhrases \/ text.rest \in RegisterPhrases

\* The text, as typed, begins with "confirm " or "confirmar " in any case,
\* after any leading whitespace, and a token follows.
BeginsWithConfirm(text) == text.head \in {"confirm", "confirmar"} /\ text.arg # NoToken

\* The planner returned a plan to turn t and the turn is over.
PlannedAndDone(t) == turns[t].pc = "done" /\ turns[t].via = "loop"

\* The turn ended in the top-level exception handler.
EndedInHandler(t) == turns[t].pc = "done" /\ turns[t].reply.kind = "error"

NoExecOf(t) == ~\E e \in execs : e.request_id = t

\* C15: a message holding a registration phrase whose plan has no tool call
\* ends with intent "error" and the reply naming the registration tool usage
\* (the generic error reply if the turn ended in the exception handler); the
\* plan's final text is never the reply, no tool runs, no confirmation is
\* created.
C15_RegistrationNeedsToolCall ==
  \A t \in Turns :
    /\ PlannedAndDone(t) /\ ContainsPhrase(turns[t].msg.text)
    /\ turns[t].plan.tool_calls = <<>>
    => /\ turns[t].reply.intent = "error"
       /\ ~EndedInHandler(t) => turns[t].reply.kind = "guardrail_no_tool"
       /\ turns[t].reply.kind # "final" /\ turns[t].reply.text = ""
       /\ NoExecOf(t) /\ turns[t].conf = NoToken

\* A registration request typed in capitals, planned as an faq with a final
\* text and no tool call, was rejected.
C15_Witness ==
  \E t \in Turns :
    /\ PlannedAndDone(t) /\ turns[t].msg.text.upper
    /\ ContainsPhrase(turns[t].msg.text)
    /\ turns[t].plan.tool_calls = <<>> /\ turns[t].plan.final = "f1"
    /\ turns[t].plan.intent = "faq"
    /\ turns[t].reply.kind = "guardrail_no_tool"

\* C16: a plan of intent write_action without tool calls ends the turn with
\* intent "error", whatever its final text, its missing list and the
\* message; the final text is never the reply and no tool runs.
C16_WriteIntentNeedsToolCall ==
  \A t \in Turns :
    /\ PlannedAndDone(t) /\ turns[t].plan.intent = "write_action"
    /\ turns[t].plan.tool_calls = <<>>
    => /\ turns[t].reply.intent = "error"
       /\ turns[t].reply.kind \in {"guardrail_write", "guardrail_no_tool", "error"}
       /\ turns[t].reply.text = ""
       /\ NoExecOf(t) /\ turns[t].conf = NoToken

\* A write-intent plan with a final text and a missing slot but no tool call
\* was rejected by the general guardrail.
C16_Witness ==
  \E t \in Turns :
    /\ PlannedAndDone(t) /\ turns[t].plan.intent = "write_action"
    /\ turns[t].plan.tool_calls = <<>> /\ turns[t].plan.final = "f1"
    /\ turns[t].plan.missing # <<>>
    /\ turns[t].reply.kind = "guardrail_write"

\* The reply is the plan's final text verbatim, with the plan's intent and
\* no missing entries.
ReturnsFinal(t) ==
  /\ turns[t].reply.kind = "final" /\ turns[t].reply.text = turns[t].plan.final
  /\ turns[t].reply.intent = turns[t].plan.intent
  /\ turns[t].reply.missing = <<>>

\* A guardrail rejects a plan without tool calls for this message.
GuardrailRejects(t) ==
  \/ ContainsPhrase(turns[t].msg.text)
  \/ turns[t].plan.intent = "write_action"

\* The plan has a final text, no tool call, no missing entry, and no
\* guardrail rejects it.
FinalDue(t) ==
  /\ turns[t].via = "loop"
  /\ turns[t].plan.final # "" /\ turns[t].plan.tool_calls = <<>>
  /\ turns[t].plan.missing = <<>> /\ ~GuardrailRejects(t)

\* C17: a turn returns the plan's final text verbatim, with the plan's
\* intent and an empty missing list, exactly when the plan has a final text,
\* no tool call, no missing entry and no guardrail rejected it (and the turn
\* did not end in the exception handler); a plan with tool calls never gets
\* its final text returned, and a final answer comes with no tool execution
\* and no queued confirmation.
C17_FinalExactlyWhenDue ==
  \A t \in Turns :
    turns[t].pc = "done" =>
      /\ turns[t].reply.kind = "final" \/ turns[t].reply.text \in {"f1", "f2"} =>
           /\ ReturnsFinal(t) /\ FinalDue(t)
           /\ NoExecOf(t) /\ turns[t].conf = NoToken
      /\ FinalDue(t) /\ ~EndedInHandler(t) => ReturnsFinal(t)
      /\ turns[t].plan.tool_calls # <<>> => turns[t].reply.kind # "final"

\* The greeting got its plan's final text back, and the intent faq.
C17_Witness ==
  \E t \in Turns :
    /\ turns[t].pc = "done" /\ turns[t].msg.text = PlainText
    /\ turns[t].plan.final = "f2" /\ turns[t].reply.text = "f2"
    /\ turns[t].reply.intent = "faq" /\ turns[t].reply.kind = "final"

\* The turn ended in the exception handler because a store was down.
EndedByOutage(t) ==
  /\ EndedInHandler(t)
  /\ \E n \in DOMAIN events[turns[t].msg.channel] :
       LET e == events[turns[t].msg.channel][n]
       IN e.request_id = t /\ e.type = "ERROR" /\ e.error = "OperationalError"

\* C18: a message beginning with "confirm " or "confirmar " and a token takes
\* the confirmation path: the planner is not called, no PLAN event is
\* emitted, and the turn ends with the tool's success reply or the
\* invalid-or-expired reply (leaving aside a turn stopped by the rate
\* limiter, as a duplicate, or by a store outage).
C18_ConfirmPathEndsThere ==
  \A t \in Turns :
    /\ turns[t].pc # "idle" /\ BeginsWithConfirm(turns[t].msg.text)
    /\ turns[t].reply.kind \notin {"rate_limited", "duplicate"}
    /\ ~EndedByOutage(t)
    => /\ ~turns[t].planned
       /\ \A n \in DOMAIN events[turns[t].msg.channel] :
            LET e == events[turns[t].msg.channel][n]
            IN e.request_id = t => e.type # "PLAN"
       /\ turns[t].pc = "done" =>
            turns[t].reply.kind \in {"write_result", "invalid_confirmation"}

\* C19: every handle_message call ends, on every branch, by returning one
\* response: a call that began reaches its end, a finished call has a
\* response and an unfinished one has none, and a finished call changes
\* nothing about itself afterwards.
C19_EveryCallReturnsOnce ==
  /\ \A t \in 1..WideTurns : (turns[t].pc # "idle") ~> (turns[t].pc = "done")
  /\ [](\A t \in Turns : turns[t].pc = "done" <=> turns[t].reply.kind # "")
  /\ [][\A t \in Turns : turns[t].pc = "done" => turns'[t] = turns[t]]_vars

\* A turn ran a tool and then ended in the exception handler.
C19_Witness ==
  \E t \in Turns : EndedInHandler(t) /\ turns[t].results # {}

\* The reply of the exception handler when debug is off.
FixedErrorReply ==
  [intent |-> "error", kind |-> "error", text |-> "", missing |-> <<>>,
   confirm |-> NoCreateRet, data |-> {}, debug |-> NoDebug]

\* C20: the debug field of a response is empty unless ENV is "dev" and
\* EXPOSE_DEBUG is set; with debug off, a turn that ends in the exception
\* handler gets the same fixed reply whatever the exception was.
C20_DebugGatedErrorFixed ==
  \A t \in Turns :
    /\ turns[t].reply.debug.present => env = "dev" /\ expose_debug
    /\ EndedInHandler(t) /\ ~(env = "dev" /\ expose_debug) =>
         turns[t].reply = FixedErrorReply

\* With ENV "dev" but EXPOSE_DEBUG off, a planner failure was answered with
\* the fixed reply while the audit event kept the exception text.
C20_Witness ==
  \E t \in Turns :
    /\ EndedInHandler(t) /\ env = "dev" /\ ~expose_debug
    /\ turns[t].reply = FixedErrorReply
    /\ \E n \in DOMAIN events[turns[t].msg.channel] :
         events[turns[t].msg.channel][n].error = "LLMError: invalid after repair"

----------------------------------------------------------------------------
(* Properties of the rate limiter (SpecLimiter) *)

Window == LimWindow * TicksPerSec

\* The admitted check calls of key k stamped within [t - window_sec, t].
AdmittedIn(k, t) ==
  {i \in DOMAIN lcalls : /\ lcalls[i].key = k /\ lcalls[i].allowed
                         /\ t - Window <= lcalls[i].at /\ lcalls[i].at <= t}

\* C11: for every key and every instant t, at most max_requests check calls
\* of that key returned allowed=true with a timestamp in [t - window_sec, t].
C11_WindowNeverExceedsMax ==
  \A k \in LimKeys : \A t \in 0..MaxLimTicks :
    Cardinality(AdmittedIn(k, t)) <= LimMax

\* A key filled its window, had a call refused inside it, and was admitted
\* again once the oldest entry had left the window.
C11_Witness ==
  \E k \in LimKeys : \E i, j \in DOMAIN lcalls :
    /\ i < j /\ lcalls[i].key = k /\ lcalls[j].key = k
    /\ ~lcalls[i].allowed /\ lcalls[j].allowed
    /\ Cardinality(AdmittedIn(k, lcalls[i].at)) = LimMax
    /\ Cardinality(AdmittedIn(k, lcalls[j].at)) = LimMax

\* The admitted calls of call j's key made before it and no more than
\* window_sec before it.
AdmittedBefore(j) ==
  {i \in 1..(j - 1) : /\ lcalls[i].key = lcalls[j].key /\ lcalls[i].allowed
                      /\ lcalls[j].at - lcalls[i].at <= Window}

\* C12: a check call made within window_sec of the first of max_requests
\* admitted calls of its key returns allowed=false with
\* 0 < retry_after_sec <= window_sec.
C12_NextCallRefusedWithRetry ==
  \A j \in DOMAIN lcalls :
    Cardinality(AdmittedBefore(j)) >= LimMax =>
      /\ ~lcalls[j].allowed
      /\ 0 < lcalls[j].retry_after_sec
      /\ lcalls[j].retry_after_sec <= LimWindow

\* A call refused exactly window_sec after the first admitted one (the
\* difference is 0, the hint 1), and one refused at once (the hint is the
\* whole window).
C12_Witness ==
  \E j, k \in DOMAIN lcalls :
    /\ Cardinality(AdmittedBefore(j)) >= LimMax
    /\ \E i \in AdmittedBefore(j) : lcalls[j].at - lcalls[i].at = Window
    /\ lcalls[j].retry_after_sec = 1
    /\ Cardinality(AdmittedBefore(k)) >= LimMax
    /\ \A i \in AdmittedBefore(k) : lcalls[i].at = lcalls[k].at
    /\ lcalls[k].retry_after_sec = LimWindow

----------------------------------------------------------------------------
(* Properties of the planner (SpecPlanner) *)

\* C13: one planner.plan call invokes the planning service at most twice,
\* one planning call plus at most one repair call.
C13_AtMostTwoServiceCalls == pcalls <= 2

\* The returned dict validates again, as the orchestrator validates it.
SchemaOk(v) ==
  /\ v.intent \in PlannerIntent
  /\ 0 <= v.confidence /\ v.confidence <= 10
  /\ \A i \in DOMAIN v.missing : v.missing[i] \in MissingSlots

\* C14: plan returns only the dump of an object that passed validation, on
\* every path; a second parse failure or a second validation failure ends
\* the call with an error; a finished call returned or raised.
C14_OnlyValidatedPlans ==
  /\ pret.kind = "returned" =>
       /\ ParseOk(ptext) /\ pobj = ParseJsonStrict(ptext)
       /\ Validates(pobj)
       /\ pret.value = ModelDump(pobj.fields)
       /\ SchemaOk(pret.value)
  /\ pfails.parse >= 2 \/ pfails.valid >= 2 => pstep = "done" /\ pret.kind = "raised"
  /\ pstep = "done" <=> pret.kind \in {"returned", "raised"}

\* A plan returned after a parse repair and a validation repair.
C14_Witness ==
  /\ pret.kind = "returned" /\ pfails.parse = 1 /\ pfails.valid = 1
  /\ pret.value.tool_calls # <<>>

----------------------------------------------------------------------------
(* Properties of the audit log (SpecAudit) *)

\* A state with the audit table and the writer's failures left out.
Hide(st) == [st EXCEPT !.audit = [c \in Channels |-> <<>>], !.wfail = {}]

\* Whether each writer.append call of a step raises, by event type.
WriterCases == SUBSET EventTypes

\* The step F leaves the same responses, sessions, confirmations, dedupe
\* records, rate-limit buckets, tool runs and in-memory events whichever of
\* its writer.append calls raise, and whatever the audit table held; the
\* reference is the step taken with a working writer and an empty table.
WriterIndifferent(F(_)) ==
  \A W \in WriterCases :
    {Hide(x) : x \in F(OrchWith(W))} = {Hide(x) : x \in F(Hide(OrchNow))}

\* Every step a handle_message call can take from this state is indifferent
\* to the writer.
StepsIndifferent ==
  \A t \in 1..AuditTurns :
    /\ /\ turns[t].pc = "idle"
       /\ \A u \in Turns : u < t => turns[u].pc = "done"
       => \A m \in Inbound : WriterIndifferent(LAMBDA st : Begun(st, t, m))
    /\ turns[t].pc = "planning" =>
         /\ WriterIndifferent(LAMBDA st : {Fail(st, t, "LLMError")})
         /\ \A plan \in Plans, code \in ShortCodeOutcomes(rows) :
              (LoopCreates([turns[t] EXCEPT !.plan = plan]) => FreeTokens(crt) # {})
              => WriterIndifferent(LAMBDA st : {Planned(st, t, plan, code)})
    /\ turns[t].pc = "tool" =>
         /\ WriterIndifferent(LAMBDA st : {ToolFailed(st, t)})
         /\ \A code \in ShortCodeOutcomes(rows) :
              (turns[t].via # "confirm" /\ LoopCreates(turns[t]) => FreeTokens(crt) # {})
              => WriterIndifferent(LAMBDA st : {ToolRan(st, t, code)})
    /\ turns[t].pc = "answering" =>
         /\ WriterIndifferent(LAMBDA st : {Fail(st, t, "LLMError")})
         /\ WriterIndifferent(LAMBDA st : {Answered(st, t)})

\* The persisted rows of a channel are events of its in-memory list, in the
\* same order.
RECURSIVE IsSubSeq(_, _)
IsSubSeq(a, b) ==
  IF a = <<>> THEN TRUE
  ELSE IF b = <<>> THEN FALSE
  ELSE IF Head(a) = Head(b) THEN IsSubSeq(Tail(a), Tail(b))
  ELSE IsSubSeq(a, Tail(b))

\* C21: a writer.append call that raises neither aborts nor alters a turn:
\* from every reachable state, every step of every turn leaves the same
\* responses and the same session, dedupe and confirmation state whichever
\* of its writer calls raise (so, by induction over the steps, does every
\* sequence of turns); the event is in the in-memory list all the same, and
\* that list only ever grows by appending.
C21_WriterFailureChangesNothing ==
  /\ [](StepsIndifferent /\ \A c \in Channels : IsSubSeq(audit[c], events[c]))
  /\ [][\A c \in Channels :
          /\ Len(events'[c]) >= Len(events[c])
          /\ SubSeq(events'[c], 1, Len(events[c])) = events[c]]_vars

\* A turn was planned, ran its tool and was answered while the writer lost
\* some of its events: the in-memory list has its IN, PLAN, TOOL and OUT, the
\* table has fewer rows, and the session was written.
C21_Witness ==
  \E t \in 1..AuditTurns :
    /\ turns[t].pc = "done" /\ turns[t].reply.kind = "answer"
    /\ HasWriter(turns[t].msg.channel)
    /\ Len(EventsOf(t)) = 4
    /\ Len(audit[turns[t].msg.channel]) < Len(events[turns[t].msg.channel])
    /\ audit[turns[t].msg.channel] # <<>>
    /\ sess[turns[t].msg.session_id].present

----------------------------------------------------------------------------
(* Properties of the plan schema (SpecPlanner) *)

\* plan validated the object it parsed last and took it / turned it down.
Accepted == pobj # NoObj /\ pret.kind = "returned"
TurnedDown == pobj # NoObj /\ pret.kind # "returned"

\* The three conditions on the object parsed last: intent of the
\* enumeration, confidence in [0,1], missing entries known slot names.
IntentOk == pobj.type = "object" /\ "intent" \in DOMAIN pobj.fields
            /\ pobj.fields.intent \in {"identify", "faq", "read_data", "write_action", "unknown"}
ConfidenceOk == pobj.type = "object" /\ "confidence" \in DOMAIN pobj.fields
                /\ pobj.fields.confidence \in 0..10
MissingOk == pobj.type = "object" /\
             ("missing" \in DOMAIN pobj.fields =>
                \A i \in DOMAIN pobj.fields.missing :
                  pobj.fields.missing[i] \in {"cliente_ref", "periodo"})
\* Every tool call of the object carries a name.
CallsNamed == pobj.type = "object" /\
              ("tool_calls" \in DOMAIN pobj.fields =>
                 \A i \in DOMAIN pobj.fields.tool_calls :
                   "name" \in DOMAIN pobj.fields.tool_calls[i])

\* The returned plan keeps the intent, missing list, tool calls and final
\* text of the object, with tool_calls and missing defaulting to empty.
KeepsGiven ==
  LET f == pobj.fields
      v == pret.value
  IN /\ v.intent = f.intent
     /\ v.missing = (IF "missing" \in DOMAIN f THEN f.missing ELSE <<>>)
     /\ v.final = (IF "final" \in DOMAIN f THEN f.final ELSE "")
     /\ IF "tool_calls" \in DOMAIN f
          THEN /\ Len(v.tool_calls) = Len(f.tool_calls)
               /\ \A i \in DOMAIN f.tool_calls : v.tool_calls[i].name = f.tool_calls[i].name
          ELSE v.tool_calls = <<>>

----------------------------------------------------------------------------
(* C23 *)

\* The tool the latest registration under the name, among the first n, gave.
LatestFor(name, n) ==
  LET at == {i \in 1..n : rlog[i][1] = name}
  IN IF at = {} THEN NoTool
     ELSE rlog[CHOOSE i \in at : \A j \in at : j <= i][2]

\* C23: once from_settings or register_many has run, every tool the
\* configured provider returned is retrievable by its name through get and
\* appears in list; get of a name never registered returns none; a tool
\* registered under a name already taken replaces the earlier one, so the
\* registry holds at most one tool per name.
C23_RegistryHoldsLatestPerName ==
  /\ \A l \in ConfiguredProviders :
       rlog = Items(AsList(l)) =>
         \A i \in DOMAIN l : Get(rtools, l[i].name) = l[i] /\ l[i] \in List(rtools)
  /\ \A i \in DOMAIN rlog :
       /\ Get(rtools, rlog[i][1]) # NoTool
       /\ Get(rtools, rlog[i][1]) = LatestFor(rlog[i][1], Len(rlog))
       /\ LatestFor(rlog[i][1], Len(rlog)) \in List(rtools)
  /\ \A name \in AskedNames :
       (\A i \in DOMAIN rlog : rlog[i][1] # name) => Get(rtools, name) = NoTool
  /\ \A a, b \in List(rtools) : a.name = b.name => a = b
  /\ Cardinality(List(rtools)) = Cardinality({rlog[i][1] : i \in DOMAIN rlog})
  /\ \A k \in DOMAIN rgets : rgets[k].ret = LatestFor(rgets[k].name, rgets[k].after)

\* A name was registered twice with different tools, get then returned the
\* later one, and a get of a name no one registered returned none.
C23_Witness ==
  /\ \E i, j \in DOMAIN rlog :
       /\ i < j /\ rlog[i][1] = rlog[j][1] /\ rlog[i][2] # rlog[j][2]
       /\ \E k \in DOMAIN rgets :
            /\ rgets[k].name = rlog[j][1] /\ rgets[k].after >= j
            /\ rgets[k].ret = LatestFor(rlog[j][1], rgets[k].after)
            /\ rgets[k].ret # rlog[i][2]
  /\ \E k \in DOMAIN rgets : rgets[k].ret = NoTool

----------------------------------------------------------------------------
(* C24 *)

\* Consumer j returns none in this step for a reason other than expiry: no
\* record matched, the session differs, or the status is not pending.
TurnedAway(j) ==
  /\ cons[j].pc # "done" /\ cons'[j].pc = "done" /\ ~cons'[j].ret.ok
  /\ IF variant = "db"
       THEN \/ cons'[j].row = NullRow
            \/ cons'[j].row.session_id # cons'[j].sid
            \/ cons'[j].row.status # "pending"
       ELSE cons'[j].tok = 0

\* Consumer j has returned, and what it presented selected the record of
\* token T.
Presented(j, T) ==
  /\ cons[j].pc = "done" /\ crt[T].pc = "done"
  /\ IF cons[j].store = "db" THEN cons[j].tok = T
     ELSE cons[j].v = T /\ T \in cons[j].born

WrongSession(j, T) ==
  Presented(j, T) /\ ~cons[j].ret.ok /\ cons[j].sid # crt[T].session_id

OwnerInTime(k, T) ==
  Presented(k, T) /\ cons[k].sid = crt[T].session_id /\ cons[k].at <= crt[T].expires_at

\* C24: a consume that returns none because nothing matches, the session
\* differs or the status is not pending leaves the store as it was; a
\* consume with the right token and a wrong session does not invalidate the
\* token, and a later consume by the owning session before expiry succeeds.
C24_FailedConsumeLeavesStore ==
  /\ [][\A j \in 1..MaxConsumers :
          TurnedAway(j) => rows' = rows /\ pending' = pending]_vars
  /\ [](\A T \in Tokens : \A j, k \in 1..MaxConsumers :
          (/\ j < k /\ WrongSession(j, T) /\ OwnerInTime(k, T)
           /\ \A l \in 1..MaxConsumers \ {k} :
                ~(cons[l].ret.ok /\ cons[l].ret.token = T))
          => cons[k].ret.ok /\ cons[k].ret.token = T)

\* Another session presented the right token and got none; the owner then
\* consumed it.
C24_Witness ==
  \E T \in Tokens : \E j, k \in 1..MaxConsumers :
    /\ j < k /\ WrongSession(j, T) /\ OwnerInTime(k, T)
    /\ cons[j].v = T /\ cons[k].ret.ok /\ cons[k].ret.token = T
    /\ cons[j].at <= cons[k].at

----------------------------------------------------------------------------
(* C25 *)

\* The default ttl the store a create call went to was built with.
DefaultTtlOf(c) == IF c.store = "db" THEN DbConfDefaultTtl ELSE MemConfDefaultTtl

\* C25: every record create produces, in both store variants and for every
\* ttl argument (zero and negative included), expires at least one time unit
\* after it was created; with no ttl argument the configured default is used.
C25_ExpiryAfterCreation ==
  \A i \in Tokens :
    crt[i].pc = "done" =>
      /\ crt[i].expires_at >= crt[i].created_at + 1
      /\ ~crt[i].ttl.given => crt[i].expires_at = crt[i].created_at + DefaultTtlOf(crt[i])
      /\ \A r \in rows : r.token = i => r.expires_at >= r.created_at + 1
      /\ \A it \in pending : it.token = i => it.expires_at >= it.created_at + 1

----------------------------------------------------------------------------
(* C26 *)

RateLimited(t) == turns[t].pc = "done" /\ turns[t].reply.intent = "rate_limited"

SameMessage(t, u) ==
  /\ turns[t].msg.channel = turns[u].msg.channel
  /\ turns[t].msg.message_id = turns[u].msg.message_id

\* C26: a request the session limiter denies is answered rate_limited with
\* a retry-after hint before any other step: dedupe is not marked, so the
\* same (channel, message id) sent again later counts as first seen; session
\* state, confirmations and the audit log stay as they were.
C26_DeniedTurnTouchesNothing ==
  /\ [][\A t \in Turns :
          (turns[t].pc = "idle" /\ turns'[t].pc = "done"
           /\ turns'[t].reply.intent = "rate_limited")
          => /\ "retry_after_sec" \in turns'[t].reply.data
             /\ turns'[t].mark = "none" /\ ~turns'[t].planned
             /\ drows' = drows /\ dmem' = dmem
             /\ sess' = sess /\ rows' = rows /\ crt' = crt /\ pending' = pending
             /\ events' = events /\ audit' = audit /\ execs' = execs]_vars
  /\ [](\A t \in Turns :
          turns[t].mark = "dup" =>
            \E u \in Turns : u < t /\ SameMessage(t, u) /\ turns[u].mark = "first"
                             /\ ~RateLimited(u))

\* A message with an id was denied by the limiter; the same pair came again
\* once the window had passed and was marked as first seen.
C26_Witness ==
  \E u, t \in Turns :
    /\ u < t /\ RateLimited(u) /\ turns[u].msg.message_id # NoMsgId
    /\ SameMessage(t, u) /\ turns[t].msg.session_id = turns[u].msg.session_id
    /\ turns[t].mark = "first" /\ turns[t].pc = "done"

----------------------------------------------------------------------------
(* C27 *)

\* No check of the key of call i was made between calls i and j.
NoneBetween(i, j) ==
  \A k \in DOMAIN lcalls : i < k /\ k < j => lcalls[k].key # lcalls[i].key

\* C27: a denied check records no timestamp, and the retry_after_sec it
\* returns is the time until the oldest retained timestamp leaves the
\* window: with no other check of the key in between, a check made exactly
\* retry_after_sec seconds after the denial is admitted.
C27_AdmittedAfterRetryAfter ==
  /\ \A key \in LimKeys : \A n \in DOMAIN lbuckets[key] :
       \E i \in DOMAIN lcalls :
         lcalls[i].key = key /\ lcalls[i].allowed /\ lcalls[i].at = lbuckets[key][n]
  /\ \A i, j \in DOMAIN lcalls :
       (/\ i < j /\ lcalls[i].key = lcalls[j].key /\ ~lcalls[i].allowed
        /\ NoneBetween(i, j)
        /\ lcalls[j].at = lcalls[i].at + lcalls[i].retry_after_sec * TicksPerSec)
       => lcalls[j].allowed

----------------------------------------------------------------------------
(* C28 *)

\* The turn took the planning path and its plan declares missing slots.
PlanMissing(t) ==
  turns[t].pc = "done" /\ turns[t].via = "loop" /\ turns[t].plan.missing # <<>>

\* The turn ended with the clarifying question for its plan.
AsksForMissing(t) ==
  /\ turns[t].reply.kind = "ask_missing"
  /\ turns[t].reply.intent = turns[t].plan.intent
  /\ turns[t].reply.missing = turns[t].plan.missing

\* The turn ran no tool and queued no confirmation.
NothingDone(t) ==
  /\ \A e \in execs : e.request_id # t
  /\ turns[t].conf = NoToken
  /\ \A i \in DOMAIN events[turns[t].msg.channel] :
       events[turns[t].msg.channel][i].request_id = t =>
         events[turns[t].msg.channel][i].type # "TOOL"

\* One of the three guardrails of handle_message rejects the plan.
GuardrailHits(t) ==
  LET plan == turns[t].plan
      wants == WantsRegisterCustomer(turns[t].msg.text)
  IN \/ wants /\ plan.tool_calls = <<>>
     \/ /\ wants /\ plan.tool_calls # <<>>
        /\ plan.tool_calls[1].name # "register_customer"
        /\ RegistryGet("register_customer")
     \/ plan.intent = "write_action" /\ plan.tool_calls = <<>>

\* C28 as stated: whenever a valid plan declares missing slots, the turn
\* ends with a clarifying question carrying the plan's intent and missing
\* list, no tool is executed and no confirmation is created.
C28_MissingAlwaysAsks ==
  \A t \in Turns : PlanMissing(t) => AsksForMissing(t) /\ NothingDone(t)

\* C28: whenever a valid plan declares missing slots, no tool is executed
\* and no confirmation is created, whatever else the plan carries; the turn
\* ends with the clarifying question (the plan's intent, the plan's missing
\* list) unless a guardrail rejected the plan, which gives the guardrail's
\* error reply with an empty missing list, or the turn ended in the
\* exception handler.
C28_MissingAsksUnlessGuardrail ==
  \A t \in Turns :
    /\ PlanMissing(t) =>
         /\ NothingDone(t)
         /\ GuardrailHits(t) =>
              /\ turns[t].reply.intent = "error" /\ turns[t].reply.missing = <<>>
              /\ turns[t].reply.kind \in {"guardrail_no_tool", "guardrail_register",
                                          "guardrail_write", "error"}
         /\ ~GuardrailHits(t) => AsksForMissing(t) \/ turns[t].reply.kind = "error"
    /\ turns[t].pc = "done" /\ turns[t].reply.kind = "ask_missing" =>
         PlanMissing(t) /\ ~GuardrailHits(t)

\* A plan with missing slots, tool calls and a final text got the clarifying
\* question, with no tool run and no confirmation queued.
C28_Witness ==
  \E t \in Turns :
    /\ PlanMissing(t) /\ AsksForMissing(t) /\ NothingDone(t)
    /\ turns[t].plan.tool_calls # <<>> /\ turns[t].plan.final # ""

----------------------------------------------------------------------------
(* C29 *)

\* The tool runs a turn started in its loop.
ExecsOf(t) == {e \in execs : e.request_id = t /\ ~e.confirmed}

\* The TOOL events of a turn, in the order they were appended.
ToolEventsOf(t) ==
  SelectSeq(events[turns[t].msg.channel],
            LAMBDA e : e.request_id = t /\ e.type = "TOOL")

\* The first call of the plan whose tool is registered with write scope
\* (0: none).
FirstWrite(calls) ==
  LET w == {i \in DOMAIN calls :
              RegistryGet(calls[i].name) /\ RequiresConfirmation(calls[i].name)}
  IN IF w = {} THEN 0 ELSE CHOOSE i \in w : \A j \in w : i <= j

\* The tokens of the rows of pending_confirmations.
TokensIn(table) == {r.token : r \in table}

LoopInOrder(t) ==
  LET calls == turns[t].plan.tool_calls
      ran == ExecsOf(t)
      evs == ToolEventsOf(t)
  IN /\ \A e \in ran :
          /\ e.n \in DOMAIN calls
          /\ e.tool_name = calls[e.n].name /\ e.args = calls[e.n].args
          /\ \A m \in 1..e.n : \E x \in ran : x.n = m
          /\ \A x \in ran : x.n = e.n => x = e
          /\ FirstWrite(calls) # 0 => e.n < FirstWrite(calls)
     /\ Len(evs) <= Cardinality(ran)
     /\ turns[t].pc = "tool" => Len(evs) = Cardinality(ran) - 1
     /\ turns[t].pc # "tool" => Len(evs) >= Cardinality(ran) - 1
     /\ \A k \in DOMAIN evs : evs[k].tool_name = calls[k].name

StopsAtFirstWrite(t) ==
  LET calls == turns[t].plan.tool_calls
      fw == FirstWrite(calls)
      i == turns[t].conf
  IN /\ turns[t].reply.kind = "needs_confirmation" =>
          /\ fw # 0 /\ i # NoToken
          /\ crt[i].tool_name = calls[fw].name /\ crt[i].tool_args = calls[fw].args
          /\ crt[i].session_id = turns[t].msg.session_id
          /\ \E r \in rows : /\ r.token = i /\ r.tool_name = calls[fw].name
                             /\ JsonLoads(r.tool_args_json) = calls[fw].args
          /\ {e.n : e \in ExecsOf(t)} = 1..(fw - 1)
          /\ turns[t].reply.data = {"pending_confirmation"}
          /\ turns[t].reply.confirm.token = i
     /\ (turns[t].pc = "done" /\ turns[t].via = "loop" /\ fw # 0
         /\ \A m \in 1..fw : RegistryGet(calls[m].name))
        => turns[t].reply.kind \in {"needs_confirmation", "error"}
     /\ i # NoToken => turns[t].reply.kind = "needs_confirmation"

\* C29: the tool loop runs the plan's tool calls one at a time in the plan's
\* order; at the first call whose tool has write scope it stops, creates
\* exactly one pending confirmation capturing that call's name and
\* arguments, runs and captures no later call, and the response data holds
\* no result of the read tools run before.
C29_LoopStopsAtFirstWrite ==
  /\ [](\A t \in 1..LoopTurns :
          turns[t].pc # "idle" => LoopInOrder(t) /\ StopsAtFirstWrite(t))
  /\ [][\A t \in 1..LoopTurns :
          /\ Cardinality({e \in execs' : e.request_id = t})
               <= Cardinality({e \in execs : e.request_id = t}) + 1
          /\ turns'[t] # turns[t] =>
               /\ Cardinality(TokensIn(rows') \ TokensIn(rows)) <= 1
               /\ TokensIn(rows') # TokensIn(rows) =>
                    turns'[t].pc = "done" /\ turns'[t].conf \in TokensIn(rows')]_vars

\* A plan of a read call, a write call and a further call: the read tool
\* ran, the write call was queued for confirmation, the further call was
\* neither run nor queued.
C29_Witness ==
  \E t \in 1..LoopTurns :
    LET calls == turns[t].plan.tool_calls IN
    /\ turns[t].pc = "done" /\ turns[t].reply.kind = "needs_confirmation"
    /\ Len(calls) = 3 /\ FirstWrite(calls) = 2
    /\ Cardinality(ExecsOf(t)) = 1 /\ Len(ToolEventsOf(t)) = 1
    /\ calls[3] # calls[2]
    /\ crt[turns[t].conf].tool_name = calls[2].name
    /\ "tool_results" \notin turns[t].reply.data

----------------------------------------------------------------------------
(* C30 *)

\* The events of request t on the bus of channel c, in the order appended.
RequestEvents(c, t) == SelectSeq(events[c], LAMBDA e : e.request_id = t)

\* Where a type of event stands in the order of a request's events.
Rank(type) ==
  IF type = "IN" THEN 1 ELSE IF type = "PLAN" THEN 2 ELSE IF type = "OUT" THEN 4 ELSE 3

RequestInOrder(c, t) ==
  LET evs == RequestEvents(c, t)
      tools == SelectSeq(evs, LAMBDA e : e.type = "TOOL")
      calls == turns[t].plan.tool_calls
  IN /\ evs # <<>> => evs[1].type = "IN" /\ turns[t].msg.channel = c
     /\ \A i, j \in DOMAIN evs :
          i < j => /\ Rank(evs[i].type) <= Rank(evs[j].type)
                   /\ evs[i].type \in {"IN", "PLAN", "OUT"} => evs[j].type # evs[i].type
                   /\ evs[i].type # "OUT"
     /\ \A j \in DOMAIN evs :
          evs[j].type = "TOOL" /\ turns[t].via = "loop" =>
            \E i \in 1..(j - 1) : evs[i].type = "PLAN"
     /\ turns[t].via = "loop" =>
          /\ Len(tools) <= Len(calls)
          /\ \A k \in DOMAIN tools : tools[k].tool_name = calls[k].name

\* C30: for every request id, however concurrent turns interleave, the
\* events of the request appear in the order IN, at most one PLAN, the TOOL
\* events in plan order, at most one OUT: no PLAN precedes the IN, no TOOL
\* precedes the PLAN on the planning path, nothing follows the OUT.
C30_EventsInOrder ==
  \A c \in Channels : \A t \in 1..LoopTurns : RequestInOrder(c, t)

\* A request's IN, PLAN, two TOOL events and OUT, in that order, with events
\* of another request appended in between.
C30_Witness ==
  \E t, u \in 1..LoopTurns :
    LET c == turns[t].msg.channel
        evs == events[c]
        mine == RequestEvents(c, t)
    IN /\ t # u /\ turns[t].pc = "done"
       /\ Len(mine) = 5 /\ mine[2].type = "PLAN" /\ mine[3].type = "TOOL"
       /\ mine[4].type = "TOOL" /\ mine[5].type = "OUT"
       /\ \E i, j, k \in DOMAIN evs :
            /\ i < j /\ j < k
            /\ evs[i].request_id = t /\ evs[i].type = "PLAN"
            /\ evs[j].request_id = u
            /\ evs[k].request_id = t /\ evs[k].type = "TOOL"

----------------------------------------------------------------------------
(* C31 *)

\* The PLAN events of request t.
PlanEventsOf(t) == SelectSeq(EventsOf(t), LAMBDA e : e.type = "PLAN")

\* The planner handed turn t a plan.
GotPlan(t) == turns[t].via = "loop"

\* The planner failed in turn t: the turn asked for a plan and ended in the
\* exception handler without one.
PlannerFailed(t) ==
  turns[t].pc = "done" /\ turns[t].planned /\ turns[t].via = ""

\* C31: a turn in which the planner returns a plan emits exactly one PLAN
\* event, before any guardrail is evaluated, so a plan a guardrail rejects
\* is recorded all the same; a turn in which the planner fails emits none.
C31_PlanRecordedOnceBeforeGuardrails ==
  /\ [](\A t \in Turns :
          /\ GotPlan(t) =>
               /\ Len(PlanEventsOf(t)) = 1
               /\ PlanEventsOf(t)[1].intent = turns[t].plan.intent
               /\ \A i, j \in DOMAIN EventsOf(t) :
                    EventsOf(t)[i].type = "PLAN" /\ EventsOf(t)[j].type = "OUT" => i < j
          /\ ~GotPlan(t) => Len(PlanEventsOf(t)) = 0)
  /\ [][\A t \in Turns :
          turns[t].pc = "planning" /\ turns'[t].via = "loop" =>
            \E i \in DOMAIN events'[turns[t].msg.channel] :
              /\ i > Len(events[turns[t].msg.channel])
              /\ events'[turns[t].msg.channel][i].type = "PLAN"
              /\ events'[turns[t].msg.channel][i].request_id = t]_vars

\* A plan was rejected by a guardrail and its PLAN event is on the bus, and
\* the turn of a failed planner has no PLAN event.
C31_Witness ==
  \E t \in Turns :
    /\ turns[t].pc = "done" /\ GotPlan(t) /\ GuardrailHits(t)
    /\ turns[t].reply.kind \in {"guardrail_no_tool", "guardrail_register", "guardrail_write"}
    /\ Len(PlanEventsOf(t)) = 1

----------------------------------------------------------------------------
(* C32 *)

\* The events of request t that name a tool.
NamedEventsOf(t) == SelectSeq(EventsOf(t), LAMBDA e : e.tool_name # "")

\* The calls of _run_tool of turn t that have ended.
EndedAttempts(t) == turns[t].tried - (IF turns[t].pc = "tool" THEN 1 ELSE 0)

\* C32: every invocation attempt made through the tool executor, whether it
\* ends in success, tool not found, an argument-validation failure or an
\* exception of the tool, appends exactly one event naming the tool (TOOL on
\* success, ERROR on failure).
C32_OneNamedEventPerAttempt ==
  \A t \in 1..LoopTurns :
    turns[t].pc # "idle" =>
      /\ Len(NamedEventsOf(t)) = EndedAttempts(t)
      /\ \A i \in DOMAIN NamedEventsOf(t) : NamedEventsOf(t)[i].type \in {"TOOL", "ERROR"}

----------------------------------------------------------------------------
(* C33 *)

\* The ERROR events of request t.
ErrorEventsOf(t) == SelectSeq(EventsOf(t), LAMBDA e : e.type = "ERROR")

\* Turn t ends in the exception handler in this step.
FailsNow(t) ==
  turns[t].pc \notin {"idle", "done"} /\ turns'[t].pc = "done"
  /\ turns'[t].reply.kind = "error"

\* The events this step appended to the bus of channel c.
Appended(c) == SubSeq(events'[c], Len(events[c]) + 1, Len(events'[c]))

\* C33 as stated: an exception in planning, guardrails or tool execution is
\* caught once at the boundary; the failed turn has exactly one ERROR event
\* for its request id, no OUT event and no entry in the session history.
C33_ExactlyOneErrorEvent ==
  \A t \in 1..LoopTurns :
    EndedInHandler(t) =>
      /\ Len(ErrorEventsOf(t)) = 1
      /\ \A i \in DOMAIN EventsOf(t) : EventsOf(t)[i].type # "OUT"
      /\ ~turns[t].finalized

\* C33: an exception in planning, guardrails or tool execution is caught
\* once at the boundary, which appends exactly one ERROR event without a tool
\* name as the request's last event; a failed turn has no OUT event and
\* leaves the session history as it was.  When the exception came out of
\* tool.run the executor has appended an ERROR event naming the tool just
\* before, so that turn has two ERROR events; every other failed turn has
\* one.
C33_OneBoundaryErrorEvent ==
  /\ [](\A t \in 1..LoopTurns :
          /\ EndedInHandler(t) =>
               LET errs == ErrorEventsOf(t) IN
               /\ Len(errs) \in {1, 2}
               /\ errs[Len(errs)].tool_name = ""
               /\ EventsOf(t)[Len(EventsOf(t))] = errs[Len(errs)]
               /\ Len(errs) = 2 => errs[1].tool_name # ""
               /\ \A i \in DOMAIN EventsOf(t) : EventsOf(t)[i].type # "OUT"
               /\ ~turns[t].finalized
          /\ turns[t].pc # "idle" /\ ~EndedInHandler(t) => Len(ErrorEventsOf(t)) = 0)
  /\ [][\A t \in 1..LoopTurns :
          FailsNow(t) =>
            LET new == Appended(turns[t].msg.channel)
                errs == SelectSeq(new, LAMBDA e : e.type = "ERROR")
                toolRaised == /\ turns[t].pc = "tool"
                              /\ \A i \in DOMAIN new : new[i].type # "TOOL"
            IN
            /\ sess' = sess
            /\ \A i \in DOMAIN new : new[i].request_id = t
            /\ IF toolRaised
                 THEN new = errs /\ Len(errs) = 2 /\ errs[1].tool_name = turns[t].cur
                      /\ errs[2].tool_name = ""
                 ELSE Len(errs) = 1 /\ errs[1].tool_name = "" /\ new[Len(new)] = errs[1]]_vars

\* One turn failed in the planner and has one ERROR event; another failed in
\* a tool after an earlier tool had run, and has two.
C33_Witness ==
  \E t, u \in 1..LoopTurns :
    /\ EndedInHandler(t) /\ turns[t].via = "" /\ Len(ErrorEventsOf(t)) = 1
    /\ EndedInHandler(u) /\ turns[u].via = "loop" /\ Len(ErrorEventsOf(u)) = 2
    /\ ErrorEventsOf(u)[1].tool_name = "get_report"

----------------------------------------------------------------------------
(* C34 *)

\* A tool call of turn t's loop fails in this step: the turn had its plan or
\* was waiting for a tool, and ends in the exception handler.
LoopFailsNow(t) ==
  /\ FailsNow(t) /\ turns[t].pc \in {"planning", "tool"} /\ turns'[t].via = "loop"

\* C34: when a tool call of the tool loop fails (unknown tool, invalid
\* arguments, an exception of the tool), no later call of the plan is
\* executed, no confirmation is created, and the response is the generic
\* error reply, whose data holds none of the results of the tools the loop
\* ran before.
C34_FailedCallEndsLoop ==
  /\ [][\A t \in 1..LoopTurns :
          /\ LoopFailsNow(t) =>
               /\ execs' = execs /\ rows' = rows /\ crt' = crt
               /\ turns'[t].conf = NoToken
               /\ turns'[t].reply = Response("error", "error")
                  \/ turns'[t].reply.debug.present
               /\ turns'[t].reply.data = {} /\ turns'[t].reply.intent = "error"
               /\ turns'[t].reply.text = "" /\ turns'[t].reply.confirm = NoCreateRet
          /\ turns[t].pc = "done" =>
               /\ turns'[t] = turns[t]
               /\ {e \in execs' : e.request_id = t} = {e \in execs : e.request_id = t}]_vars
  /\ [](\A t \in 1..LoopTurns :
          EndedInHandler(t) /\ turns[t].via = "loop" =>
            /\ \A e \in execs : e.request_id = t =>
                 /\ e.n <= turns[t].idx
                 /\ Len(SelectSeq(EventsOf(t), LAMBDA x : x.type = "TOOL")) >= e.n - 1
            /\ turns[t].conf = NoToken /\ turns[t].reply.data = {})

\* The second call of a three-call plan failed after the first had run: the
\* reply is the error reply with empty data and the third call never ran.
C34_Witness ==
  \E t \in 1..LoopTurns :
    /\ EndedInHandler(t) /\ turns[t].via = "loop"
    /\ Len(turns[t].plan.tool_calls) = 3
    /\ turns[t].results # {} /\ turns[t].reply.data = {}
    /\ turns[t].plan.tool_calls[3] = TicketCall /\ turns[t].conf = NoToken
    /\ \A e \in execs : e.request_id = t => e.n < 3
    /\ Len(SelectSeq(EventsOf(t), LAMBDA x : x.type = "TOOL")) = 1

----------------------------------------------------------------------------
(* C35 *)

\* The history the sessions table holds for sid, expired or not.
Stored(store, sid) ==
  IF store[sid].present THEN HistoryLoads(store[sid].history_json) ELSE <<>>

\* The entry _finalize appends for turn t.
EntryOf(tr) == [in |-> tr.msg.text.head, out |-> tr.reply.kind, intent |-> tr.reply.intent]

\* The turns of session sid that emitted an OUT event.
FinalizedFor(sid) == {t \in Turns : turns[t].finalized /\ turns[t].msg.session_id = sid}

\* Turn t is finalized in this step.
FinalizesNow(t) == ~turns[t].finalized /\ turns'[t].finalized

FinalizeStep ==
  /\ \A t \in Turns :
       FinalizesNow(t) =>
         LET sid == turns'[t].msg.session_id IN
         /\ Stored(sess', sid) = Append(SessionGet(sess, sid, now), EntryOf(turns'[t]))
         /\ \A o \in Sessions \ {sid} : sess'[o] = sess[o]
         /\ \A u \in Turns \ {t} : ~FinalizesNow(u)
  /\ sess' # sess => \E t \in Turns : FinalizesNow(t)
  /\ \A t \in Turns :
       turns[t].pc # "done" /\ turns'[t].pc = "done" /\ ~turns'[t].finalized
         => sess' = sess

----------------------------------------------------------------------------
(* C36 *)

\* A POST was made in this step.
Posted == pposts' = pposts + 1

\* The POST of this step failed: the call goes on to its next attempt or
\* gives up.
PostFailed ==
  /\ Posted /\ pcalls' = pcalls /\ pfails' = pfails /\ pobj' = pobj
  /\ \/ pattempt' = pattempt + 1
     \/ pstep' = "done" /\ pret' = Raised("LLMError")

\* The chat call in progress returned or raised in this step.
ChatEnds == Posted /\ (pstep' # pstep \/ pcalls' # pcalls)

ChatStep ==
  Posted =>
    /\ pattempt <= OllamaRetries
    /\ PostFailed =>
         IF pattempt < OllamaRetries
           THEN ~ChatEnds /\ pret' = pret
           ELSE ChatEnds /\ pstep' = "done" /\ pret' = Raised("LLMError")
    /\ ~PostFailed => ChatEnds /\ pattempt' = 0 /\ ContentUsable(ptext')

\* C36: a chat call makes at most retries+1 POSTs, returns on the first one
\* that carries usable content, raises LLMError out of plan() after the last
\* failed one, and always ends.
C36_ChatBoundedAndEnds ==
  /\ [][ChatStep]_vars
  /\ [](pattempt <= OllamaRetries /\ pposts <= pcalls * (OllamaRetries + 1))
  /\ (pstep # "idle") ~> (pstep = "done")

\* The first call answered on its last attempt with text that did not
\* parse; the repair call used up all its attempts and raised.
C36_Witness ==
  /\ pstep = "done" /\ pret = Raised("LLMError")
  /\ pcalls = 2 /\ pposts = 2 * (OllamaRetries + 1)
  /\ pfails.parse = 1 /\ pattempt = OllamaRetries

----------------------------------------------------------------------------
(* C37 *)

\* The times a consume call may come at, cleanup having run at time now.
LaterTimes == now..(MaxTime + 1)

\* What consume(v, sid) at time t may return on a table: the outcome on any
\* row its SELECT can read, none when it reads no row.
DbConsumeRets(table, v, sid, t) ==
  IF RowsMatching(table, v) = {} THEN {NoRet}
  ELSE {DbConsumeRow(table, r, sid, t).ret : r \in RowsMatching(table, v)}

\* cleanup_expired on the table: only pending rows past their expires_at
\* change, and only in their status.
DbCleanupMaintains(table, t) ==
  LET after == CleanupExpired(table, t) IN
  /\ \A r \in table :
       IF r.status = "pending" /\ r.expires_at < t
         THEN [r EXCEPT !.status = "expired"] \in after
         ELSE r \in after
  /\ Cardinality(after) = Cardinality(table)
  /\ CleanupExpired(after, t) = after
  /\ \A v \in ConsumeVals, sid \in Sessions, t2 \in LaterTimes :
       t2 >= t => DbConsumeRets(after, v, sid, t2) = DbConsumeRets(table, v, sid, t2)

\* cleanup on the in-memory dict: only items past their expires_at go.
MemCleanupMaintains(items, t) ==
  LET after == MemCleanupItems(items, t) IN
  /\ after \subseteq items
  /\ \A it \in items : it \notin after <=> t > it.expires_at
  /\ MemCleanupItems(after, t) = after
  /\ \A v \in ConsumeVals, sid \in Sessions, t2 \in LaterTimes :
       t2 >= t => MemConsumeItems(after, v, sid, t2).ret = MemConsumeItems(items, v, sid, t2).ret

\* C37: cleanup changes only pending records past their expires-at (to
\* expired; the in-memory store drops them), never a consumed record or an
\* unexpired pending one; a second run changes nothing; and consume returns
\* the same for every value, session and time whether or not cleanup ran.
C37_CleanupIsMaintenance ==
  /\ DbCleanupMaintains(rows, now)
  /\ MemCleanupMaintains(pending, now)

\* cleanup_expired has expired a record no consume call touched, and left
\* a consumed record that is past its expires_at as well.
C37_Witness ==
  /\ \E r \in rows :
       /\ r.status = "expired"
       /\ \A j \in 1..MaxConsumers : cons[j].tok # r.token
  /\ \E r \in rows : r.status = "consumed" /\ r.expires_at < now

----------------------------------------------------------------------------
(* C38 *)

\* The pending rows a consume by short code c can match.
PendingWithCode(c) == {r \in rows : r.status = "pending" /\ r.short_code = c}

\* C38: after any interleaving of concurrent create calls no two pending
\* confirmations carry the same short code, so a consume by short code
\* matches at most one pending record.
C38_PendingShortCodesDistinct ==
  \A c \in Codes : Cardinality(PendingWithCode(c)) <= 1

----------------------------------------------------------------------------
(* C39 *)

\* The first submission was marked first-seen and ended in the handler.
FailedFirst(t) == EndedInHandler(t) /\ turns[t].mark = "first"

\* The turn planned nothing, ran nothing, wrote no session and no event.
NotProcessed(u) ==
  /\ ~turns[u].planned /\ ~turns[u].finalized
  /\ turns[u].conf = NoToken /\ turns[u].via = ""
  /\ NoExecOf(u)
  /\ EventsOf(u) = <<>>

\* C39 as stated: when the first submission of a (channel, message id) ended
\* in the error handler, every resubmission within the TTL is answered as a
\* duplicate and never processed.
C39_FailedMessageAnsweredDuplicate ==
  \A t, u \in Turns : Resubmits(t, u) /\ FailedFirst(t) => SuppressedAsDuplicate(u)

\* A step in which a turn ends in the handler leaves the dedupe records
\* that were there.
FailureKeepsMarks ==
  \A t \in Turns :
    /\ turns[t].pc \notin {"idle", "done"}
    /\ turns'[t].pc = "done" /\ turns'[t].reply.kind = "error"
    => drows' = drows /\ dmem' = dmem

\* C39: the dedupe record is written before the message is processed and
\* stays when the turn fails: after a first submission that ended in the
\* error handler, every resubmission within the TTL is never processed; it
\* is answered as a duplicate unless the session rate limiter denies it
\* first (rate_limited).  A message is processed at most once.
C39_FailedMessageNeverReprocessed ==
  /\ [][FailureKeepsMarks]_vars
  /\ [](\A t, u \in Turns :
          Resubmits(t, u) /\ FailedFirst(t) =>
            /\ turns[u].pc = "done" /\ NotProcessed(u)
            /\ turns[u].reply.kind \in {"duplicate", "rate_limited"}
            /\ turns[u].reply.kind = "duplicate" => SuppressedAsDuplicate(u))

\* A message was admitted and failed in its planner call or its tool; it
\* was submitted again later and suppressed as a duplicate.
C39_Witness ==
  \E t, u \in Turns :
    /\ Resubmits(t, u) /\ FailedFirst(t) /\ turns[t].planned
    /\ SuppressedAsDuplicate(u)
    /\ turns[u].at > turns[t].at

----------------------------------------------------------------------------
(* C40 *)

\* The calls of the sequence that name the tool.
IndexesOf(calls, name) == {i \in DOMAIN calls : calls[i].name = name}

\* The last call of the sequence that names the tool.
LastIndexOf(calls, name) ==
  CHOOSE i \in IndexesOf(calls, name) : \A j \in IndexesOf(calls, name) : j <= i

\* The loop of the turn ran all its calls: the answerer is composing, or
\* it has answered and the turn was finalized.
LoopDone(t) ==
  /\ turns[t].via # "confirm" /\ turns[t].planned /\ turns[t].plan.tool_calls # <<>>
  /\ \/ turns[t].pc = "answering"
     \/ /\ turns[t].pc = "done" /\ turns[t].finalized
        /\ turns[t].idx = Len(turns[t].plan.tool_calls)

\* C40: every call of the plan ran in order, with its own arguments and its
\* own TOOL event, but the tool results handed to the answerer and put in
\* the response hold one entry for each tool name, that of the last call of
\* that name.
C40_LastResultPerName ==
  \A t \in 1..LoopTurns :
    LoopDone(t) =>
      LET calls == turns[t].plan.tool_calls IN
      /\ Len(ToolEventsOf(t)) = Len(calls)
      /\ \A i \in DOMAIN calls :
           /\ ToolEventsOf(t)[i].tool_name = calls[i].name
           /\ \E e \in ExecsOf(t) : e.n = i /\ e.tool_name = calls[i].name
                                    /\ e.args = calls[i].args
      /\ DOMAIN turns[t].tool_results = {calls[i].name : i \in DOMAIN calls}
      /\ \A name \in DOMAIN turns[t].tool_results :
           turns[t].tool_results[name] = LastIndexOf(calls, name)
      /\ turns[t].pc = "done" => "tool_results" \in turns[t].reply.data

\* A turn asked get_report twice with different arguments and was answered:
\* two runs, two TOOL events, one entry that holds the second result.
C40_Witness ==
  \E t \in 1..LoopTurns :
    /\ turns[t].pc = "done" /\ turns[t].finalized
    /\ turns[t].plan.tool_calls = <<ReportCall, ReportAgain>>
    /\ Len(ToolEventsOf(t)) = 2 /\ Cardinality(ExecsOf(t)) = 2
    /\ turns[t].tool_results = SetResult(NoResults, "get_report", 2)

====
